---- MODULE Spec2Model ----
(***************************************************************************)
(* Turn resolution and state integrity of the text adventure engine:      *)
(* ActionResolver.turn (adventure/core/action.py) with the StateValidator *)
(* (adventure/core/state_validator.py) it drives.                         *)
(*                                                                         *)
(* Python strings are TLA+ strings (TLC evaluates Len, \o and SubSeq on   *)
(* them); dicts are functions whose DOMAIN is the set of keys present,    *)
(* so a payload that omits a key is a function with a smaller domain.     *)
(***************************************************************************)
EXTENDS Integers, Sequences, FiniteSets, TLC

(***************************************************************************)
(* Text helpers: str.lower() and the `in` substring test.                 *)
(***************************************************************************)
UpperChars == <<"A","B","C","D","E","F","G","H","I","J","K","L","M",
                "N","O","P","Q","R","S","T","U","V","W","X","Y","Z">>

LowerChars == <<"a","b","c","d","e","f","g","h","i","j","k","l","m",
                "n","o","p","q","r","s","t","u","v","w","x","y","z">>

LowerChar(c) ==
    IF \E i \in 1..Len(UpperChars) : UpperChars[i] = c
    THEN LowerChars[CHOOSE i \in 1..Len(UpperChars) : UpperChars[i] = c]
    ELSE c

RECURSIVE Lower(_)
Lower(s) ==
    IF Len(s) = 0 THEN ""
    ELSE LowerChar(SubSeq(s, 1, 1)) \o Lower(SubSeq(s, 2, Len(s)))

\* Python `k in s` for strings
Contains(k, s) ==
    \E i \in 1..(Len(s) - Len(k) + 1) : SubSeq(s, i, i + Len(k) - 1) = k

\* any(keyword in text for keyword in keywords), keywords a sequence
AnyKeyword(keywords, text) ==
    \E i \in 1..Len(keywords) : Contains(keywords[i], text)

(***************************************************************************)
(* Dict and list helpers.                                                 *)
(***************************************************************************)
\* dict.get(key, default)
Get(d, k, default) == IF k \in DOMAIN d THEN d[k] ELSE default

\* d with d[k] = v (key added when absent)
Put(d, k, v) == [x \in (DOMAIN d) \cup {k} |-> IF x = k THEN v ELSE d[x]]

\* d without the key k
Drop(d, k) == [x \in (DOMAIN d) \ {k} |-> d[x]]

\* dict.update(other): the keys of other overwrite, the other keys stay
DictUpdate(d, other) ==
    [x \in (DOMAIN d) \cup (DOMAIN other) |->
        IF x \in DOMAIN other THEN other[x] ELSE d[x]]

\* set(list)
ToSet(seq) == {seq[i] : i \in 1..Len(seq)}

\* Counter(list)[item], list.count(item)
Count(seq, item) == Cardinality({i \in 1..Len(seq) : seq[i] = item})

\* old.get(f) != new.get(f): a missing key reads as None
GetDiffers(old, new, f) ==
    IF f \in DOMAIN old /\ f \in DOMAIN new THEN old[f] # new[f]
    ELSE (f \in DOMAIN old) # (f \in DOMAIN new)

(***************************************************************************)
(* StateValidator: keyword tables.                                        *)
(***************************************************************************)
EmptyDict == <<>>

critical_fields == <<"Name", "Race", "Class", "Pronouns">>

level_keywords == <<"level up", "gain level", "advance", "experience">>

ability_names == <<"Strength", "Dexterity", "Constitution",
                   "Intelligence", "Wisdom", "Charisma">>

ability_keywords == <<"boost", "enhance", "drain", "curse", "magic", "potion">>

money_keywords == <<"gold", "coin", "coins", "gold piece", "gold pieces",
                    "copper", "silver", "platinum", "gp", "cp", "sp", "pp">>

multiple_keywords(new_count) ==
    <<"multiple", "several", "many", "bunch", "stack", "pile",
      ToString(new_count), "two", "three", "four", "five">>

loss_keywords == <<"drop", "sell", "trade", "use", "consume", "break",
                   "destroy", "give", "lose">>

spell_keywords == <<"learn", "forget", "teach", "scroll", "spellbook", "level up">>

cantrip_keywords == <<"learn", "forget", "teach", "level up">>

field_keywords(field) ==
    CASE field = "Name" -> <<"rename", "call", "name">>
      [] field = "Race" -> <<"transform", "polymorph", "change race">>
      [] field = "Class" -> <<"multiclass", "change class", "become">>
      [] field = "Pronouns" -> <<"pronoun", "gender">>
      [] OTHER -> <<>>

(***************************************************************************)
(* StateValidator: the three validation passes.  An issue is the tuple of *)
(* its message kind and the values the message is formatted from.         *)
(***************************************************************************)
change_mentioned_in_action(field, old_val, new_val, action_description) ==
    LET action_lower == Lower(action_description) IN
    \/ (Len(old_val) > 0 /\ Contains(Lower(old_val), action_lower))
    \/ (Len(new_val) > 0 /\ Contains(Lower(new_val), action_lower))
    \/ AnyKeyword(field_keywords(field), action_lower)

validate_player_changes(old_state, new_state, action_description) ==
    LET player_old == Get(old_state, "player", EmptyDict)
        player_new == Get(new_state, "player", EmptyDict)
        desc_lower == Lower(action_description)
        FieldIssue(field) ==
            IF GetDiffers(player_old, player_new, field)
               /\ ~change_mentioned_in_action(field,
                       Get(player_old, field, ""), Get(player_new, field, ""),
                       action_description)
            THEN << <<"Unexpected change to", field,
                      Get(player_old, field, ""), Get(player_new, field, "")>> >>
            ELSE <<>>
        old_level == Get(player_old, "Level", 1)
        new_level == Get(player_new, "Level", 1)
        LevelIssue ==
            IF old_level # new_level /\ ~AnyKeyword(level_keywords, desc_lower)
            THEN << <<"Unexpected level change", old_level, new_level>> >>
            ELSE <<>>
        old_abilities == Get(player_old, "Abilities", EmptyDict)
        new_abilities == Get(player_new, "Abilities", EmptyDict)
        AbilityIssue(ability) ==
            LET old_val == Get(old_abilities, ability, 10)
                new_val == Get(new_abilities, ability, 10)
            IN IF old_val # new_val /\ ~AnyKeyword(ability_keywords, desc_lower)
               THEN << <<"Unexpected ability change", ability, old_val, new_val>> >>
               ELSE <<>>
    IN IF DOMAIN player_old = {} \/ DOMAIN player_new = {}
       THEN <<>>
       ELSE FieldIssue(critical_fields[1]) \o FieldIssue(critical_fields[2])
            \o FieldIssue(critical_fields[3]) \o FieldIssue(critical_fields[4])
            \o LevelIssue
            \o AbilityIssue(ability_names[1]) \o AbilityIssue(ability_names[2])
            \o AbilityIssue(ability_names[3]) \o AbilityIssue(ability_names[4])
            \o AbilityIssue(ability_names[5]) \o AbilityIssue(ability_names[6])

\* any(keyword in item.lower() for keyword in money_keywords)
is_money(item) == AnyKeyword(money_keywords, Lower(item))

MoneyIssues_HeadOnly(inventory) ==
    IF Len(inventory) > 0 /\ is_money(Head(inventory))
    THEN << <<"Money item found in inventory", Head(inventory)>> >>
    ELSE <<>>

RECURSIVE MoneyIssues(_)
MoneyIssues(inventory) ==
    IF Len(inventory) = 0 THEN <<>>
    ELSE (IF is_money(Head(inventory))
          THEN << <<"Money item found in inventory", Head(inventory)>> >>
          ELSE <<>>) \o MoneyIssues(Tail(inventory))

\* the keys of Counter(list), in order of first occurrence
RECURSIVE CounterKeys(_)
CounterKeys(seq) ==
    IF Len(seq) = 0 THEN <<>>
    ELSE LET front == SubSeq(seq, 1, Len(seq) - 1)
             last == seq[Len(seq)]
         IN IF last \in ToSet(front) THEN CounterKeys(front)
            ELSE Append(CounterKeys(front), last)

ExcessCopies_AnyIncrease(new_count, old_count) == new_count > old_count

\* if new_count > old_count + 1
ExcessCopies(new_count, old_count) == new_count > old_count + 1

RECURSIVE DuplicateIssues(_, _, _, _)
DuplicateIssues(keys, old_inventory, new_inventory, desc_lower) ==
    IF Len(keys) = 0 THEN <<>>
    ELSE LET item == Head(keys)
             new_count == Count(new_inventory, item)
             old_count == Count(old_inventory, item)
         IN (IF ExcessCopies(new_count, old_count)
                /\ ~AnyKeyword(multiple_keywords(new_count), desc_lower)
             THEN << <<"Unexpected duplicate items", new_count, item, old_count>> >>
             ELSE <<>>)
            \o DuplicateIssues(Tail(keys), old_inventory, new_inventory, desc_lower)

DramaticReduction_OverThree(new_size, old_size) ==
    2 * new_size < old_size /\ old_size > 3

\* len(new_inventory_set) < len(old_inventory_set) * 0.5 and len(old_inventory_set) > 2
DramaticReduction(new_size, old_size) ==
    2 * new_size < old_size /\ old_size > 2

LostItems_NeverReported(old_inventory_set, new_inventory_set) == {}

\* lost_items = old_inventory_set - new_inventory_set
LostItems(old_inventory_set, new_inventory_set) ==
    old_inventory_set \ new_inventory_set

validate_inventory_changes(old_state, new_state, action_description) ==
    LET player_old == Get(old_state, "player", EmptyDict)
        player_new == Get(new_state, "player", EmptyDict)
        old_inventory == Get(player_old, "Inventory", <<>>)
        new_inventory == Get(player_new, "Inventory", <<>>)
        desc_lower == Lower(action_description)
        old_inventory_set == ToSet(old_inventory)
        new_inventory_set == ToSet(new_inventory)
        lost_items == LostItems(old_inventory_set, new_inventory_set)
        LostIssue ==
            IF lost_items # {} /\ ~AnyKeyword(loss_keywords, desc_lower)
            THEN << <<"Unexpected inventory loss", lost_items>> >>
            ELSE <<>>
        DramaticIssue ==
            IF DramaticReduction(Cardinality(new_inventory_set),
                                 Cardinality(old_inventory_set))
            THEN << <<"Dramatic inventory reduction",
                      Cardinality(old_inventory_set), Cardinality(new_inventory_set)>> >>
            ELSE <<>>
    IN MoneyIssues(new_inventory)
       \o DuplicateIssues(CounterKeys(new_inventory), old_inventory, new_inventory, desc_lower)
       \o LostIssue
       \o DramaticIssue

validate_magic_changes_LossOnly(old_state, new_state, action_description) ==
    LET old_magic == Get(Get(old_state, "player", EmptyDict), "Magic", EmptyDict)
        new_magic == Get(Get(new_state, "player", EmptyDict), "Magic", EmptyDict)
        lost_spells == ToSet(Get(old_magic, "Spells_Known", <<>>))
                       \ ToSet(Get(new_magic, "Spells_Known", <<>>))
    IN IF lost_spells # {} /\ ~AnyKeyword(spell_keywords, Lower(action_description))
       THEN << <<"Unexpected spell loss", lost_spells>> >>
       ELSE <<>>

validate_magic_changes(old_state, new_state, action_description) ==
    LET player_old == Get(old_state, "player", EmptyDict)
        player_new == Get(new_state, "player", EmptyDict)
        old_magic == Get(player_old, "Magic", EmptyDict)
        new_magic == Get(player_new, "Magic", EmptyDict)
        desc_lower == Lower(action_description)
        old_spells == ToSet(Get(old_magic, "Spells_Known", <<>>))
        new_spells == ToSet(Get(new_magic, "Spells_Known", <<>>))
        lost_spells == old_spells \ new_spells
        gained_spells == new_spells \ old_spells
        SpellIssues ==
            IF old_spells # new_spells /\ ~AnyKeyword(spell_keywords, desc_lower)
            THEN (IF lost_spells # {}
                  THEN << <<"Unexpected spell loss", lost_spells>> >> ELSE <<>>)
                 \o (IF gained_spells # {}
                     THEN << <<"Unexpected spell gain", gained_spells>> >> ELSE <<>>)
            ELSE <<>>
        old_cantrips == ToSet(Get(old_magic, "Cantrips_Known", <<>>))
        new_cantrips == ToSet(Get(new_magic, "Cantrips_Known", <<>>))
        CantripIssues ==
            IF old_cantrips # new_cantrips /\ ~AnyKeyword(cantrip_keywords, desc_lower)
            THEN << <<"Unexpected cantrip changes", old_cantrips, new_cantrips>> >>
            ELSE <<>>
    IN SpellIssues \o CantripIssues

\* ValidationResult(is_valid, issues)
validate_state_changes(old_state, new_state, action_description) ==
    LET issues == validate_player_changes(old_state, new_state, action_description)
                  \o validate_inventory_changes(old_state, new_state, action_description)
                  \o validate_magic_changes(old_state, new_state, action_description)
    IN [is_valid |-> Len(issues) = 0, issues |-> issues]

(***************************************************************************)
(* StateValidator: defensive merge.                                       *)
(***************************************************************************)
safe_top_level_fields_WithoutClock == <<"location", "danger", "dark", "monsters", "NPCs">>

safe_top_level_fields == <<"location", "danger", "time_of_day", "sunrise", "sunset",
                           "date", "dark", "monsters", "NPCs">>

safe_player_fields_WithoutGold == <<"HP", "Status", "XP", "location">>

safe_player_fields_WithMaxHP == <<"HP", "Max_HP", "Gold", "Status", "XP", "location">>

safe_player_fields == <<"HP", "Gold", "Status", "XP", "location">>

\* for field in fields: if field in new: merged[field] = new[field]
CopyPresent(merged, new, fields) ==
    [x \in (DOMAIN merged) \cup (ToSet(fields) \cap DOMAIN new) |->
        IF x \in ToSet(fields) /\ x \in DOMAIN new THEN new[x] ELSE merged[x]]

clean_inventory_of_money_KeepsAll(inventory) == inventory

RECURSIVE clean_inventory_of_money(_)
clean_inventory_of_money(inventory) ==
    IF Len(inventory) = 0 THEN <<>>
    ELSE (IF is_money(Head(inventory)) THEN <<>> ELSE <<Head(inventory)>>)
         \o clean_inventory_of_money(Tail(inventory))

\* the loop of _remove_excessive_duplicates over new_inventory[1..n]
RECURSIVE Deduplicated(_, _, _)
Deduplicated(old_inventory, new_inventory, n) ==
    IF n = 0 THEN <<>>
    ELSE LET deduplicated == Deduplicated(old_inventory, new_inventory, n - 1)
             item == new_inventory[n]
             old_count == Count(old_inventory, item)
             current_count == Count(deduplicated, item)
             max_allowed == IF old_count + 1 > old_count THEN old_count + 1 ELSE old_count
         IN IF current_count < max_allowed
            THEN Append(deduplicated, item)
            ELSE deduplicated

remove_excessive_duplicates_NoRepeats(old_inventory, new_inventory) ==
    CounterKeys(new_inventory)

remove_excessive_duplicates_KeepsAll(old_inventory, new_inventory) == new_inventory

remove_excessive_duplicates(old_inventory, new_inventory) ==
    Deduplicated(old_inventory, new_inventory, Len(new_inventory))

Truthy_NeverEmpty(field, v) == TRUE

\* Python truthiness: a string or list is falsy when empty, a dict when it has no key
Truthy(field, v) ==
    IF field \in {"Abilities", "Proficiencies"} THEN DOMAIN v # {} ELSE Len(v) > 0

merge_magic_defensively_TakesCandidate(old_magic, new_magic) ==
    DictUpdate(old_magic, new_magic)

merge_magic_defensively(old_magic, new_magic) ==
    LET with_slots == CopyPresent(old_magic, new_magic, <<"Spell_Slots">>)
        MergeKnown(merged, spell_type) ==
            IF spell_type \in DOMAIN new_magic
            THEN LET old_spells == ToSet(Get(old_magic, spell_type, <<>>))
                     new_spells == ToSet(new_magic[spell_type])
                 IN IF Cardinality(old_spells) <= 2 \/ old_spells \subseteq new_spells
                    THEN Put(merged, spell_type, new_magic[spell_type])
                    ELSE merged
            ELSE merged
    IN MergeKnown(MergeKnown(with_slots, "Spells_Known"), "Cantrips_Known")

LevelAllowed_AnyLevel(new_level, old_level) == TRUE

\* if new_level >= old_level
LevelAllowed(new_level, old_level) == new_level >= old_level

merge_player_defensively(old_player, new_player) ==
    LET safe == CopyPresent(old_player, new_player, safe_player_fields)
        old_inventory == Get(old_player, "Inventory", <<>>)
        with_inventory ==
            IF "Inventory" \in DOMAIN new_player
            THEN LET new_inventory == new_player["Inventory"]
                     cleaned_inventory == clean_inventory_of_money(new_inventory)
                     deduplicated_inventory ==
                         remove_excessive_duplicates(old_inventory, cleaned_inventory)
                     old_inv_size == Len(old_inventory)
                     final_inv_size == Len(deduplicated_inventory)
                 IN IF 2 * final_inv_size >= old_inv_size \/ old_inv_size <= 2
                    THEN Put(safe, "Inventory", deduplicated_inventory)
                    ELSE Put(safe, "Inventory", old_inventory)
            ELSE safe
        with_effects == CopyPresent(with_inventory, new_player, <<"Spell_Effects">>)
        with_level ==
            IF "Level" \in DOMAIN new_player
               /\ LevelAllowed(new_player["Level"], Get(old_player, "Level", 1))
            THEN Put(with_effects, "Level", new_player["Level"])
            ELSE with_effects
        with_magic ==
            IF "Magic" \in DOMAIN new_player
            THEN Put(with_level, "Magic",
                     merge_magic_defensively(Get(old_player, "Magic", EmptyDict),
                                             new_player["Magic"]))
            ELSE with_level
        \* Name, Race, Class, Abilities, Proficiencies
        KeepUnlessEmpty(merged, field) ==
            IF field \in DOMAIN new_player
               /\ ~(field \in DOMAIN old_player /\ Truthy(field, old_player[field]))
               /\ Truthy(field, new_player[field])
            THEN Put(merged, field, new_player[field])
            ELSE merged
    IN KeepUnlessEmpty(KeepUnlessEmpty(KeepUnlessEmpty(KeepUnlessEmpty(KeepUnlessEmpty(
           with_magic, "Name"), "Race"), "Class"), "Abilities"), "Proficiencies")

merge_states_defensively(old_state, new_state) ==
    LET merged == CopyPresent(old_state, new_state, safe_top_level_fields)
    IN IF "player" \in DOMAIN new_state /\ "player" \in DOMAIN old_state
       THEN Put(merged, "player",
                merge_player_defensively(old_state["player"], new_state["player"]))
       ELSE merged

(***************************************************************************)
(* Dice: d20.roll(expression).total and ActionResolver._roll_dice.        *)
(***************************************************************************)
Digits == <<"0", "1", "2", "3", "4", "5", "6", "7", "8", "9">>

IsDigit(c) == \E i \in 1..Len(Digits) : Digits[i] = c

DigitValue(c) == (CHOOSE i \in 1..Len(Digits) : Digits[i] = c) - 1

\* expressions of the form NdM or NdM+K with one-digit N, M >= 1 and K
WellFormedDice(expr) ==
    /\ Len(expr) \in {3, 5}
    /\ IsDigit(SubSeq(expr, 1, 1)) /\ DigitValue(SubSeq(expr, 1, 1)) >= 1
    /\ SubSeq(expr, 2, 2) = "d"
    /\ IsDigit(SubSeq(expr, 3, 3)) /\ DigitValue(SubSeq(expr, 3, 3)) >= 1
    /\ Len(expr) = 5 => (SubSeq(expr, 4, 4) = "+" /\ IsDigit(SubSeq(expr, 5, 5)))

\* the totals d20.roll(expr) can produce; anything else raises RollSyntaxError
DiceTotals(expr) ==
    LET n == DigitValue(SubSeq(expr, 1, 1))
        m == DigitValue(SubSeq(expr, 3, 3))
        k == IF Len(expr) = 5 THEN DigitValue(SubSeq(expr, 5, 5)) ELSE 0
    IN (n + k)..(n * m + k)

roll_dice_FirstOnly(rolls, advantage, disadvantage) == rolls[1]

roll_dice_FlagsCancel(rolls, advantage, disadvantage) ==
    IF advantage = disadvantage THEN rolls[1]
    ELSE IF advantage
         THEN (IF rolls[2] > rolls[1] THEN rolls[2] ELSE rolls[1])
         ELSE (IF rolls[2] < rolls[1] THEN rolls[2] ELSE rolls[1])

\* rolls[i] is the total of the i-th d20.roll evaluation made by this call
roll_dice(rolls, advantage, disadvantage) ==
    LET first == rolls[1]
        after_advantage ==
            IF advantage /\ rolls[2] > first THEN rolls[2] ELSE first
        third == IF advantage THEN 3 ELSE 2
    IN IF disadvantage /\ rolls[third] < after_advantage
       THEN rolls[third]
       ELSE after_advantage

\* how many times _roll_dice evaluates the expression
roll_count(advantage, disadvantage) ==
    1 + (IF advantage THEN 1 ELSE 0) + (IF disadvantage THEN 1 ELSE 0)

(***************************************************************************)
(* LocationManager.can_move_to over _locations_by_name.                   *)
(***************************************************************************)
can_move_to(locations_by_name, from_location, to_location) ==
    /\ from_location \in DOMAIN locations_by_name
    /\ to_location \in DOMAIN locations_by_name
    /\ \E i \in 1..Len(locations_by_name[from_location].paths) :
           locations_by_name[from_location].paths[i].destination = to_location

(***************************************************************************)
(* Bounds and the payloads the oracle is allowed to return in the model.  *)
(***************************************************************************)
MaxTurns == 2

max_retries == 3

max_state_retries == 2

ApologyMessage == "I'm having trouble processing that action. Please try again."

InitialPlayer ==
    [Name |-> "Aria", Pronouns |-> "she", Race |-> "Elf", Class |-> "Bard",
     Level |-> 1, XP |-> 0, HP |-> 2, Max_HP |-> 3, Status |-> "Normal",
     Gold |-> 0, AC |-> 10,
     Abilities |-> [Strength |-> 10, Dexterity |-> 10, Constitution |-> 10,
                    Intelligence |-> 10, Wisdom |-> 10, Charisma |-> 10],
     Proficiencies |-> [Skills |-> <<"Music">>, Weapons |-> <<>>, Saving_Throws |-> <<>>],
     Magic |-> [Spells_Known |-> <<>>, Cantrips_Known |-> <<>>, Spell_Slots |-> <<>>],
     Spell_Effects |-> <<>>,
     Inventory |-> <<"Torch", "Rope">>]

InitialState ==
    [player |-> InitialPlayer, location |-> "Town", danger |-> "safe",
     time_of_day |-> "12:00", sunrise |-> "06:00", sunset |-> "18:00",
     date |-> "July 1", dark |-> FALSE, monsters |-> <<>>, NPCs |-> <<>>]

WorldMap ==
    [Town |-> [paths |-> << [destination |-> "Cave"] >>],
     Cave |-> [paths |-> << [destination |-> "Town"] >>],
     Tower |-> [paths |-> <<>>]]

Commands == {"go"}

MoveAction(target, dice) ==
    [action_type |-> "movement", target |-> target, how_to_resolve |-> "check_map",
     advantage |-> FALSE, disadvantage |-> FALSE, dice_to_roll |-> dice,
     number_to_beat |-> 2, result_if_successful |-> "Arrived.",
     result_if_failed |-> "No path."]

DiceAction(dice, advantage, disadvantage) ==
    [action_type |-> "attack", target |-> "Rat", how_to_resolve |-> "roll_dice",
     advantage |-> advantage, disadvantage |-> disadvantage, dice_to_roll |-> dice,
     number_to_beat |-> 2, result_if_successful |-> "Hit.",
     result_if_failed |-> "Miss."]

AutoAction ==
    [action_type |-> "drop", target |-> "Torch", how_to_resolve |-> "automatic",
     advantage |-> FALSE, disadvantage |-> FALSE, dice_to_roll |-> "",
     number_to_beat |-> 0, result_if_successful |-> "Torch dropped.",
     result_if_failed |-> "Stuck."]

ActionLists ==
    { <<>>,
      << MoveAction("Tower", "1d2"), AutoAction >>,
      << DiceAction("1d3", FALSE, FALSE), DiceAction("1dx", TRUE, TRUE),
         MoveAction("Cave", "") >> }

\* payloads of the get_actions request: an action list, a payload without the
\* "actions" key, and a payload whose "actions" is not a list
ActionPayloads ==
    { [actions |-> [json_type |-> "array", items |-> list]] : list \in ActionLists }
    \cup { [error |-> "no actions"],
           [actions |-> [json_type |-> "string", items |-> <<>>]] }

WellFormedActions(payload) ==
    "actions" \in DOMAIN payload /\ payload["actions"].json_type = "array"

Responses ==
    { [player_response |-> "You look around.", DM_response |-> "DM notes."] }

DeathResponses ==
    { [player_response |-> "You have died.", DM_response |-> "Dead."] }

WithPlayer(s, field, value) == Put(s, "player", Put(s["player"], field, value))

Moved(s) == Put(Put(Put(s, "location", "Cave"), "danger", "low"), "time_of_day", "13:00")

\* the candidate next states the oracle may propose for the prior state s
CandidateStates(s) ==
    { Moved(s),
      WithPlayer(s, "HP", 0),
      WithPlayer(WithPlayer(Moved(s), "Name", "Kira"), "Inventory",
                 Append(s["player"]["Inventory"], "Gold coins")),
      WithPlayer(WithPlayer(Moved(s), "Name", "Kira"), "HP", 0),
      WithPlayer(s, "Level", 2),
      Drop(s, "date"),
      Put(WithPlayer(s, "HP", s["player"]["Max_HP"] + 1), "danger", "moderate") }

(***************************************************************************)
(* ActionResolver.turn as a state machine.  The session owns game_state   *)
(* and context; everything else is a local of the running turn.  pc is    *)
(* the await point the turn is suspended at.                              *)
(***************************************************************************)
VARIABLES
    game_state,          \* GameState.current_state, the dict turn() receives
    context,             \* GameState.context, list of (command, response)
    location_manager,    \* the optional LocationManager of the resolver
    pc,                  \* "idle", "get_actions", "resolve", "get_response",
                         \* "update_state", "check_death"
    turns,               \* number of turns started
    command,
    retry_count,
    actions,
    action_index,        \* position of the for loop over actions
    success_message,
    response,
    attempt,
    validation_feedback,
    candidate_state,
    validation_result,
    new_game_state,
    result,              \* how the last turn ended and what it returned
    resolution,          \* history: per action, what it appended and its dice rolls
    state_source,        \* history: "accepted" or "merged" once the loop has ended
    oracle_calls,        \* history: the requests this turn has sent to the client
    validations,         \* history: per loop iteration, the candidate and its verdict
    prior_state,         \* history: game_state when the turn started
    prior_context        \* history: context when the turn started

vars == <<game_state, context, location_manager, pc, turns, command, retry_count,
          actions, action_index, success_message, response, attempt,
          validation_feedback, candidate_state, validation_result, new_game_state,
          result, resolution, state_source, oracle_calls, validations, prior_state,
          prior_context>>

session == <<game_state, context>>

None == [None |-> TRUE]

NoResponse == [player_response |-> "", DM_response |-> ""]

NoValidation == [is_valid |-> FALSE, issues |-> <<>>]

\* kind: "returned" or "raised"; exit: the statement the turn left through
NoResult == [kind |-> "none", exit |-> "none", value |-> ""]

Returned(exit, value) == [kind |-> "returned", exit |-> exit, value |-> value]

Init ==
    /\ game_state = InitialState
    /\ context = <<>>
    /\ location_manager \in
           { [configured |-> FALSE, locations_by_name |-> EmptyDict],
             [configured |-> TRUE, locations_by_name |-> WorldMap] }
    /\ pc = "idle"
    /\ turns = 0
    /\ command = ""
    /\ retry_count = 0
    /\ actions = <<>>
    /\ action_index = 1
    /\ success_message = ""
    /\ response = NoResponse
    /\ attempt = 0
    /\ validation_feedback = <<>>
    /\ candidate_state = None
    /\ validation_result = NoValidation
    /\ new_game_state = None
    /\ result = NoResult
    /\ resolution = <<>>
    /\ state_source = "none"
    /\ oracle_calls = <<>>
    /\ validations = <<>>
    /\ prior_state = InitialState
    /\ prior_context = <<>>

\* the request as the client sees it
Request(name, outcome) ==
    [name |-> name, outcome |-> outcome, prior_state |-> game_state,
     context |-> context,
     action_result |-> IF name = "get_response" THEN success_message ELSE "",
     feedback |-> IF name = "update_state" THEN validation_feedback ELSE <<>>]

\* game_loop calls turn(command, game_state.current_state, game_state.context)
StartTurn ==
    /\ pc = "idle"
    /\ turns < MaxTurns
    /\ turns' = turns + 1
    /\ command' \in Commands
    /\ pc' = "get_actions"
    /\ retry_count' = 0
    /\ actions' = <<>>
    /\ action_index' = 1
    /\ success_message' = ""
    /\ response' = NoResponse
    /\ attempt' = 0
    /\ validation_feedback' = <<>>
    /\ candidate_state' = None
    /\ validation_result' = NoValidation
    /\ new_game_state' = None
    /\ result' = NoResult
    /\ resolution' = <<>>
    /\ state_source' = "none"
    /\ oracle_calls' = <<>>
    /\ validations' = <<>>
    /\ prior_state' = game_state
    /\ prior_context' = context
    /\ UNCHANGED <<game_state, context, location_manager>>

RetriesExhausted_OffByOne(count) == count = max_retries + 1

\* retry_count == max_retries, tested after the increment
RetriesExhausted(count) == count = max_retries

\* one iteration of the while loop that asks for the action list
ProposeActions ==
    /\ pc = "get_actions"
    /\ oracle_calls' = Append(oracle_calls, Request("get_actions", "ok"))
    /\ \E payload \in ActionPayloads :
          IF WellFormedActions(payload)
          THEN /\ actions' = payload["actions"].items
               /\ pc' = IF Len(payload["actions"].items) = 0
                        THEN "get_response" ELSE "resolve"
               /\ UNCHANGED <<retry_count, result>>
          ELSE /\ retry_count' = retry_count + 1
               /\ IF RetriesExhausted(retry_count + 1)
                  THEN /\ pc' = "idle"
                       /\ result' = Returned("apology", ApologyMessage)
                  ELSE /\ pc' = "get_actions"
                       /\ UNCHANGED result
               /\ UNCHANGED actions
    /\ UNCHANGED <<game_state, context, location_manager, turns, command,
                   action_index, success_message, response, attempt,
                   validation_feedback, candidate_state, validation_result,
                   new_game_state, resolution, state_source, validations,
                   prior_state, prior_context>>

RollSucceeds_StrictlyGreater(roll, number_to_beat) == roll > number_to_beat

\* roll >= action['number_to_beat']
RollSucceeds(roll, number_to_beat) == roll >= number_to_beat

OnRollSyntaxError_TakesFailure(action) == <<action.result_if_failed \o "\n">>

\* except d20.errors.RollSyntaxError: logging.error(...), nothing is appended
OnRollSyntaxError(action) == <<>>

Automatic_RollsAnyway(action) ==
    [contributed |-> <<action.result_if_failed \o "\n">>, rolls |-> 1, total |-> 0]

\* the else branch: no dice expression, or the action was gated out
Automatic(action) ==
    [contributed |-> <<action.result_if_successful \o "\n">>, rolls |-> 0, total |-> 0]

\* what one action appends to success_message, given the dice totals drawn
Resolve(action, rolls) ==
    LET current_location == game_state["location"]
        gated == /\ action.how_to_resolve = "check_map"
                 /\ location_manager.configured
                 /\ ~can_move_to(location_manager.locations_by_name,
                                 current_location, action.target)
        gate_part == IF gated THEN <<action.result_if_failed \o "\n">> ELSE <<>>
        ok_to_roll == ~gated
    IN IF Len(action.dice_to_roll) > 0 /\ ok_to_roll
       THEN IF WellFormedDice(action.dice_to_roll)
            THEN LET roll == roll_dice(rolls, action.advantage, action.disadvantage)
                 IN [contributed |->
                         gate_part \o
                         (IF RollSucceeds(roll, action.number_to_beat)
                          THEN <<action.result_if_successful \o "\n">>
                          ELSE <<action.result_if_failed \o "\n">>),
                     rolls |-> roll_count(action.advantage, action.disadvantage),
                     total |-> roll]
            ELSE [contributed |-> gate_part \o OnRollSyntaxError(action),
                  rolls |-> 0, total |-> 0]
       ELSE [contributed |-> gate_part \o Automatic(action).contributed,
             rolls |-> Automatic(action).rolls, total |-> Automatic(action).total]

RECURSIVE Join(_)
Join(strings) ==
    IF Len(strings) = 0 THEN "" ELSE Head(strings) \o Join(Tail(strings))

Accumulate_Prepends(message, part) == part \o message

\* success_message += ...
Accumulate(message, part) == message \o part

\* one iteration of the for loop over the proposed actions
ResolveAction ==
    /\ pc = "resolve"
    /\ action_index <= Len(actions)
    /\ LET action == actions[action_index]
           totals == IF WellFormedDice(action.dice_to_roll)
                     THEN DiceTotals(action.dice_to_roll) ELSE {0}
       IN \E rolls \in [1..3 -> totals] :
             LET outcome == Resolve(action, rolls)
             IN /\ success_message' = Accumulate(success_message, Join(outcome.contributed))
                /\ resolution' = Append(resolution, outcome)
    /\ action_index' = action_index + 1
    /\ pc' = IF action_index = Len(actions) THEN "get_response" ELSE "resolve"
    /\ UNCHANGED <<game_state, context, location_manager, turns, command,
                   retry_count, actions, response, attempt, validation_feedback,
                   candidate_state, validation_result, new_game_state, result,
                   state_source, oracle_calls, validations, prior_state,
                   prior_context>>

\* the narration request
Narrate ==
    /\ pc = "get_response"
    /\ oracle_calls' = Append(oracle_calls, Request("get_response", "ok"))
    /\ response' \in Responses
    /\ pc' = "update_state"
    /\ UNCHANGED <<game_state, context, location_manager, turns, command,
                   retry_count, actions, action_index, success_message, attempt,
                   validation_feedback, candidate_state, validation_result,
                   new_game_state, result, resolution, state_source, validations,
                   prior_state, prior_context>>

\* f"\n\nVALIDATION ERRORS FROM PREVIOUS ATTEMPT:\n{chr(10).join(issues)}\nPlease fix ..."
\* as the sequence of its lines, an issue line being the issue's tuple
FormatFeedback(issues) ==
    << <<"">>, <<"">>, <<"VALIDATION ERRORS FROM PREVIOUS ATTEMPT:">> >>
    \o issues
    \o << <<"Please fix these issues and preserve unchanged fields exactly.">> >>

LoopEnds_ExtraRetry(validation, current_attempt) ==
    validation.is_valid \/ current_attempt = max_state_retries + 1

\* validation_result.is_valid or attempt == max_state_retries
LoopEnds(validation, current_attempt) ==
    validation.is_valid \/ current_attempt = max_state_retries

FinalState_AcceptsCandidate(validation, old_state, candidate) == candidate

FinalState_AlwaysMerges(validation, old_state, candidate) ==
    merge_states_defensively(old_state, candidate)

\* the state the loop leaves in new_game_state when it ends
FinalState(validation, old_state, candidate) ==
    IF validation.is_valid THEN candidate
    ELSE merge_states_defensively(old_state, candidate)

NextFeedback_Accumulates(previous_feedback, issues) ==
    previous_feedback \o FormatFeedback(issues)

\* the feedback block the next request carries
NextFeedback(previous_feedback, issues) == FormatFeedback(issues)

\* one iteration of the for loop that asks for a candidate state and validates it
ProposeState ==
    /\ pc = "update_state"
    /\ oracle_calls' = Append(oracle_calls, Request("update_state", "ok"))
    /\ \E candidate \in CandidateStates(game_state) :
          LET validation == validate_state_changes(game_state, candidate, success_message)
          IN /\ candidate_state' = candidate
             /\ validation_result' = validation
             /\ validations' = Append(validations,
                    [candidate |-> candidate, is_valid |-> validation.is_valid,
                     issues |-> validation.issues])
             /\ IF LoopEnds(validation, attempt)
                THEN /\ new_game_state' = FinalState(validation, game_state, candidate)
                     /\ state_source' = IF validation.is_valid THEN "accepted" ELSE "merged"
                     /\ pc' = "check_death"
                     /\ UNCHANGED <<attempt, validation_feedback>>
                ELSE /\ validation_feedback' =
                            NextFeedback(validation_feedback, validation.issues)
                     /\ attempt' = attempt + 1
                     /\ pc' = "update_state"
                     /\ UNCHANGED <<new_game_state, state_source>>
    /\ UNCHANGED <<game_state, context, location_manager, turns, command,
                   retry_count, actions, action_index, success_message, response,
                   result, resolution, prior_state, prior_context>>

PlayerDead_StrictlyNegative(s) ==
    /\ "player" \in DOMAIN s
    /\ "HP" \in DOMAIN s["player"]
    /\ s["player"]["HP"] < 0

\* 'player' in s and 'HP' in s['player'] and s['player']['HP'] <= 0
PlayerDead(s) ==
    /\ "player" \in DOMAIN s
    /\ "HP" \in DOMAIN s["player"]
    /\ s["player"]["HP"] <= 0

DeathNarration_AppendsContext ==
    /\ pc = "check_death"
    /\ PlayerDead(new_game_state)
    /\ oracle_calls' = Append(oracle_calls, Request("death", "ok"))
    /\ \E death_response \in DeathResponses :
          /\ result' = Returned("death", death_response["player_response"])
          /\ context' = Append(context, <<command, death_response["player_response"]>>)
    /\ pc' = "idle"
    /\ UNCHANGED <<game_state, location_manager, turns, command,
                   retry_count, actions, action_index, success_message, response,
                   attempt, validation_feedback, candidate_state, validation_result,
                   new_game_state, resolution, state_source, validations,
                   prior_state, prior_context>>

DeathNarration_CommitsState ==
    /\ pc = "check_death"
    /\ PlayerDead(new_game_state)
    /\ oracle_calls' = Append(oracle_calls, Request("death", "ok"))
    /\ \E death_response \in DeathResponses :
          result' = Returned("death", death_response["player_response"])
    /\ game_state' = DictUpdate(game_state, new_game_state)
    /\ pc' = "idle"
    /\ UNCHANGED <<context, location_manager, turns, command,
                   retry_count, actions, action_index, success_message, response,
                   attempt, validation_feedback, candidate_state, validation_result,
                   new_game_state, resolution, state_source, validations,
                   prior_state, prior_context>>

\* the death branch: one more request, its narration is returned
DeathNarration ==
    /\ pc = "check_death"
    /\ PlayerDead(new_game_state)
    /\ oracle_calls' = Append(oracle_calls, Request("death", "ok"))
    /\ \E death_response \in DeathResponses :
          result' = Returned("death", death_response["player_response"])
    /\ pc' = "idle"
    /\ UNCHANGED <<game_state, context, location_manager, turns, command,
                   retry_count, actions, action_index, success_message, response,
                   attempt, validation_feedback, candidate_state, validation_result,
                   new_game_state, resolution, state_source, validations,
                   prior_state, prior_context>>

ContextAppend_KeepsLastOnly(log, entry) == <<entry>>

\* context.append(entry)
ContextAppend(log, entry) == Append(log, entry)

\* context.append((command, response['player_response'])); game_state.update(new_game_state)
Commit ==
    /\ pc = "check_death"
    /\ ~PlayerDead(new_game_state)
    /\ context' = ContextAppend(context, <<command, response["player_response"]>>)
    /\ game_state' = DictUpdate(game_state, new_game_state)
    /\ result' = Returned("commit", response["player_response"])
    /\ pc' = "idle"
    /\ UNCHANGED <<location_manager, turns, command, retry_count, actions,
                   action_index, success_message, response, attempt,
                   validation_feedback, candidate_state, validation_result,
                   new_game_state, resolution, state_source, oracle_calls,
                   validations, prior_state, prior_context>>

OracleRaises_Retries ==
    /\ pc \in {"get_actions", "get_response", "update_state"}
       \/ (pc = "check_death" /\ PlayerDead(new_game_state))
    /\ oracle_calls' = Append(oracle_calls,
           Request(IF pc = "check_death" THEN "death" ELSE pc, "raised"))
    /\ Len(oracle_calls) < 2 * max_retries
    /\ UNCHANGED <<game_state, context, location_manager, pc, turns, command,
                   retry_count, actions, action_index, success_message, response,
                   attempt, validation_feedback, candidate_state, validation_result,
                   new_game_state, result, resolution, state_source, validations,
                   prior_state, prior_context>>

\* an awaited request raises: turn has no handler, the exception leaves turn().
\* (With the LLMClient of adventure/llm/client.py the update_state request is
\* such a call every time: it passes max_tokens, which make_structured_request
\* does not accept.)
OracleRaises ==
    /\ pc \in {"get_actions", "get_response", "update_state"}
       \/ (pc = "check_death" /\ PlayerDead(new_game_state))
    /\ oracle_calls' = Append(oracle_calls,
           Request(IF pc = "check_death" THEN "death" ELSE pc, "raised"))
    /\ result' = [kind |-> "raised", exit |-> "raised", value |-> "LLMError"]
    /\ pc' = "idle"
    /\ UNCHANGED <<game_state, context, location_manager, turns, command,
                   retry_count, actions, action_index, success_message, response,
                   attempt, validation_feedback, candidate_state, validation_result,
                   new_game_state, resolution, state_source, validations,
                   prior_state, prior_context>>

Next ==
    \/ StartTurn
    \/ ProposeActions
    \/ ResolveAction
    \/ Narrate
    \/ ProposeState
    \/ DeathNarration
    \/ Commit
    \/ OracleRaises

Spec == Init /\ [][Next]_vars

\* the steps of a running turn that do not wait for a payload to validate
LocalStep ==
    \/ ResolveAction
    \/ DeathNarration
    \/ Commit

(***************************************************************************)
(* Properties of the turn.                                                *)
(***************************************************************************)
CallsNamed(name) ==
    Cardinality({i \in 1..Len(oracle_calls) : oracle_calls[i].name = name})

StateRequests == SelectSeq(oracle_calls, LAMBDA call : call.name = "update_state")

TurnOver == pc = "idle" /\ result.kind # "none"

AllRejected ==
    /\ Len(validations) = 3
    /\ \A i \in 1..3 : ~validations[i].is_valid

\* C1 (as stated): when all 3 iterations of the ProposeState/Validate loop
\* reject their candidate, the turn's next state is merge(prior state, last
\* candidate), and the rejected candidate is never itself what gets committed
\* as the session state.
C1_RejectedCandidateNeverCommitted ==
    /\ state_source = "merged" =>
           /\ AllRejected
           /\ new_game_state = merge_states_defensively(prior_state, validations[3].candidate)
    /\ (TurnOver /\ result.exit = "commit" /\ state_source = "merged") =>
           game_state # validations[3].candidate

\* C1 (amended): when all 3 iterations reject their candidate, the turn's next
\* state is the output of Defensive Merge on the prior state and the last
\* candidate, and that output is what a commit stores; the loop never takes the
\* rejected candidate directly (the merge output may still equal it).
C1_ExhaustedLoopUsesDefensiveMerge ==
    /\ state_source = "merged" =>
           /\ AllRejected
           /\ new_game_state = merge_states_defensively(prior_state, validations[3].candidate)
    /\ (TurnOver /\ result.exit = "commit" /\ state_source = "merged") =>
           game_state = merge_states_defensively(prior_state, validations[3].candidate)
    /\ (pc = "check_death" /\ AllRejected) => state_source = "merged"

C1_Witness ==
    /\ TurnOver
    /\ result.exit = "commit"
    /\ state_source = "merged"
    /\ AllRejected
    /\ game_state # validations[3].candidate
    /\ game_state # prior_state

\* C2: until the commit step the session GameState and the context log equal
\* their values at the start of the turn, and a turn that ends without
\* committing (apology, exception, death) leaves both as they were.
C2_SessionUntouchedBeforeCommit ==
    (pc # "idle" \/ result.exit # "commit") =>
        (game_state = prior_state /\ context = prior_context)

C2_Witness ==
    /\ TurnOver
    /\ result.exit = "death"
    /\ state_source = "merged"
    /\ turns = 2
    /\ Len(context) = 1
    /\ game_state # InitialState

\* an upper bound on the steps the running turn can still take
StepsLeft ==
    CASE pc = "get_actions" -> 100 + (3 - retry_count)
      [] pc = "resolve" -> 50 + (Len(actions) + 1 - action_index)
      [] pc = "get_response" -> 40
      [] pc = "update_state" -> 10 + (3 - attempt)
      [] pc = "check_death" -> 1
      [] OTHER -> 0

\* C3: every turn terminates, and within one turn at most 3 candidate states
\* are requested from the oracle: every step of a running turn strictly lowers
\* a natural-number bound on the steps left (so no turn runs forever), a turn
\* that is not waiting for the oracle can always step, and the number of state
\* requests never exceeds 3.
C3_TurnTerminatesWithinThreeStateRequests ==
    /\ [](CallsNamed("update_state") <= 3)
    /\ [](StepsLeft \in Nat)
    /\ [](pc \in {"resolve", "check_death"} => ENABLED LocalStep)
    /\ [][pc # "idle" => StepsLeft' < StepsLeft]_vars

C3_Witness ==
    /\ TurnOver
    /\ result.kind = "returned"
    /\ CallsNamed("update_state") = 3
    /\ AllRejected

\* C4: the action list is requested at most 3 times; after 3 payloads without
\* a well-formed action list the turn returns the apology, has made no other
\* oracle call, and leaves the session state and the context log unchanged.
C4_ActionRetriesEndInApology ==
    /\ CallsNamed("get_actions") <= 3
    /\ retry_count <= 3
    /\ retry_count = 3 => (pc = "idle" /\ result.exit = "apology")
    /\ result.exit = "apology" =>
           /\ retry_count = 3
           /\ result.kind = "returned"
           /\ result.value = "I'm having trouble processing that action. Please try again."
           /\ Len(oracle_calls) = 3
           /\ \A i \in 1..3 : oracle_calls[i].name = "get_actions"
           /\ game_state = prior_state
           /\ context = prior_context

C4_Witness ==
    /\ TurnOver
    /\ result.exit = "apology"
    /\ turns = 2
    /\ Len(context) = 1

HPNotPositive(s) ==
    /\ "player" \in DOMAIN s
    /\ "HP" \in DOMAIN s["player"]
    /\ s["player"]["HP"] <= 0

\* C6: when the accepted or merged state has player HP <= 0 the turn makes
\* exactly one more oracle call, the death request, returns the death
\* narration, and the context log is the one the turn started with.
C6_DeathReturnsDeathNarration ==
    (TurnOver /\ state_source # "none" /\ HPNotPositive(new_game_state)) =>
        /\ CallsNamed("death") = 1
        /\ oracle_calls[Len(oracle_calls)].name = "death"
        /\ oracle_calls[Len(oracle_calls) - 1].name = "update_state"
        /\ context = prior_context
        /\ oracle_calls[Len(oracle_calls)].outcome = "ok" =>
               /\ result.kind = "returned"
               /\ result.value \in {d["player_response"] : d \in DeathResponses}
               /\ result.value # response["player_response"]

C6_Witness ==
    /\ TurnOver
    /\ result.exit = "death"
    /\ state_source = "merged"
    /\ HPNotPositive(new_game_state)
    /\ Len(context) = 1

\* C7: a turn that reaches the commit step appends exactly the entry
\* (command, player narration) to the context log, leaves the session
\* GameState equal to the accepted or merged state, and returns the player
\* narration.
C7_CommitStoresAcceptedState ==
    (TurnOver /\ result.exit = "commit") =>
        /\ context = Append(prior_context, <<command, response["player_response"]>>)
        /\ game_state = new_game_state
        /\ result.value = response["player_response"]

\* C8: the first candidate the validator reports valid becomes the turn's
\* next state unedited, no further candidate is requested, and Defensive
\* Merge is not applied.
C8_ValidCandidateAcceptedAsIs ==
    /\ \A i \in 1..Len(validations) :
           validations[i].is_valid =>
               /\ i = Len(validations)
               /\ pc # "update_state"
               /\ state_source = "accepted"
               /\ new_game_state = validations[i].candidate
    /\ state_source = "accepted" =>
           /\ validations[Len(validations)].is_valid
           /\ CallsNamed("update_state") = Len(validations)

C8_Witness ==
    /\ state_source = "accepted"
    /\ Len(validations) = 2
    /\ "date" \notin DOMAIN new_game_state
    /\ new_game_state # merge_states_defensively(prior_state, new_game_state)

\* C9: the first state request carries no validation feedback; every retry
\* carries exactly the issue list of the iteration just before it, not the
\* issues of older iterations, and the prior state it is seeded with is the
\* unmodified session state.
C9_RetryCarriesPreviousIssuesOnly ==
    \A i \in 1..Len(StateRequests) :
        /\ StateRequests[i].prior_state = prior_state
        /\ i = 1 => StateRequests[i].feedback = <<>>
        /\ i > 1 =>
               LET feedback == StateRequests[i].feedback
               IN /\ Len(feedback) = Len(validations[i - 1].issues) + 4
                  /\ SubSeq(feedback, 4, Len(feedback) - 1) = validations[i - 1].issues
                  /\ feedback[3] = <<"VALIDATION ERRORS FROM PREVIOUS ATTEMPT:">>

C9_Witness ==
    /\ Len(StateRequests) = 3
    /\ Len(validations) = 3
    /\ validations[1].issues # validations[2].issues
    /\ Len(validations[2].issues) > 0

GatedOut(action) ==
    /\ action.how_to_resolve = "check_map"
    /\ location_manager.configured
    /\ ~can_move_to(location_manager.locations_by_name,
                    prior_state["location"], action.target)

\* C10: a check-world-graph action whose target is unreachable from the
\* current location (world graph configured) contributes its failure
\* narration and nothing else, and no dice are rolled for it, whether or not
\* it carries a dice expression.
C10_GatedActionContributesOnlyFailure ==
    \A i \in 1..Len(resolution) :
        GatedOut(actions[i]) =>
            /\ resolution[i].contributed = <<actions[i].result_if_failed \o "\n">>
            /\ resolution[i].rolls = 0

Rolled(action) ==
    /\ Len(action.dice_to_roll) > 0
    /\ WellFormedDice(action.dice_to_roll)
    /\ ~GatedOut(action)

\* C11: an action with a non-empty, well-formed dice expression that the
\* world graph did not gate out is rolled, and it contributes its success
\* narration exactly when the rolled total is >= its threshold (a total equal
\* to the threshold succeeds) and its failure narration otherwise.
C11_RollAtLeastThresholdSucceeds ==
    \A i \in 1..Len(resolution) :
        Rolled(actions[i]) =>
            /\ resolution[i].rolls >= 1
            /\ resolution[i].total \in DiceTotals(actions[i].dice_to_roll)
            /\ resolution[i].contributed =
                   IF resolution[i].total >= actions[i].number_to_beat
                   THEN <<actions[i].result_if_successful \o "\n">>
                   ELSE <<actions[i].result_if_failed \o "\n">>

C11_Witness ==
    \E i \in 1..Len(resolution) :
        /\ Rolled(actions[i])
        /\ resolution[i].total = actions[i].number_to_beat
        /\ resolution[i].contributed = <<actions[i].result_if_successful \o "\n">>

Malformed(action) ==
    /\ Len(action.dice_to_roll) > 0
    /\ ~WellFormedDice(action.dice_to_roll)
    /\ ~GatedOut(action)

\* C12: an action whose dice expression is malformed contributes neither its
\* success nor its failure narration, and the turn goes on: the loop resolves
\* every remaining action, and a turn that has left the loop has resolved all
\* its actions and makes the narration and state requests; the only thing
\* that ends such a turn early is a failing oracle call.
C12_MalformedDiceContributesNothing ==
    /\ \A i \in 1..Len(resolution) :
           Malformed(actions[i]) =>
               /\ resolution[i].contributed = <<>>
               /\ resolution[i].rolls = 0
    /\ pc = "resolve" =>
           (action_index = Len(resolution) + 1 /\ action_index <= Len(actions))
    /\ pc \in {"get_response", "update_state", "check_death"} =>
           Len(resolution) = Len(actions)
    /\ (TurnOver /\ result.kind = "returned" /\ result.exit # "apology") =>
           /\ Len(resolution) = Len(actions)
           /\ CallsNamed("get_response") = 1
           /\ CallsNamed("update_state") >= 1
    /\ (TurnOver /\ result.kind = "raised") =>
           oracle_calls[Len(oracle_calls)].outcome = "raised"

C12_Witness ==
    /\ TurnOver
    /\ result.exit = "commit"
    /\ \E i \in 1..Len(resolution) :
           /\ Malformed(actions[i])
           /\ i > 1
           /\ i < Len(resolution)
           /\ resolution[i + 1].contributed # <<>>
           /\ resolution[i - 1].contributed # <<>>

\* C13: an action with an empty dice expression contributes its success
\* narration and no dice are rolled for it; when the world graph did not
\* gate it out the success narration is all it contributes.
C13_AutomaticActionSucceedsWithoutRoll ==
    \A i \in 1..Len(resolution) :
        Len(actions[i].dice_to_roll) = 0 =>
            /\ resolution[i].rolls = 0
            /\ Len(resolution[i].contributed) >= 1
            /\ resolution[i].contributed[Len(resolution[i].contributed)]
                   = actions[i].result_if_successful \o "\n"
            /\ ~GatedOut(actions[i]) =>
                   resolution[i].contributed = <<actions[i].result_if_successful \o "\n">>

C13_Witness ==
    \E i \in 1..Len(resolution) :
        /\ actions[i].how_to_resolve = "automatic"
        /\ Len(actions[i].dice_to_roll) = 0
        /\ resolution[i].contributed = <<"Torch dropped.\n">>
        /\ resolution[i].rolls = 0

\* the contributions of the first n resolved actions, concatenated in order
RECURSIVE Contributions(_)
Contributions(n) ==
    IF n = 0 THEN ""
    ELSE Contributions(n - 1) \o Join(resolution[n].contributed)

\* C14: the resolution summary is the concatenation of what the actions
\* contributed in the order the oracle returned them, and that summary, with
\* every action resolved, is what the narration request is sent with.
C14_SummaryKeepsActionOrder ==
    /\ success_message = Contributions(Len(resolution))
    /\ \A k \in 1..Len(oracle_calls) :
           oracle_calls[k].name = "get_response" =>
               /\ Len(resolution) = Len(actions)
               /\ oracle_calls[k].action_result = Contributions(Len(actions))

C14_Witness ==
    /\ CallsNamed("get_response") = 1
    /\ Len(resolution) = 3
    /\ resolution[1].contributed = <<"Miss.\n">>
    /\ resolution[3].contributed = <<"Arrived.\n">>
    /\ success_message = "Miss.\nArrived.\n"

TurnSafeFields == {"location", "danger", "time_of_day", "sunrise", "sunset", "date"}

IdentityFields == {"Name", "Race", "Class"}

\* C15 (as stated): a turn whose candidates were all rejected returns the
\* player narration, and afterwards the session state has the pre-turn Name,
\* Race and Class and the last candidate's location, danger and clock fields.
C15_AllRejectedTurnKeepsIdentityTakesSafeFields ==
    (TurnOver /\ AllRejected /\ result.kind = "returned") =>
        /\ result.value = response["player_response"]
        /\ \A f \in IdentityFields :
               game_state["player"][f] = prior_state["player"][f]
        /\ \A f \in TurnSafeFields :
               game_state[f] = validations[3].candidate[f]

\* C15 (amended): a turn whose candidates were all rejected surfaces no
\* validation issue.  When the merged state has player HP > 0 the turn
\* returns the player narration and commits: each of Name, Race and Class
\* that was non-empty before the turn keeps its pre-turn value, and each of
\* location, danger and the clock fields that the last candidate carries has
\* the last candidate's value.  When the merged state has player HP <= 0 the
\* turn returns the death narration and the session state is the pre-turn
\* state.
C15_AllRejectedTurnCommitsMergeUnlessDead ==
    (TurnOver /\ AllRejected /\ result.kind = "returned") =>
        LET last == validations[3].candidate
        IN IF HPNotPositive(new_game_state)
           THEN /\ result.exit = "death"
                /\ result.value \in {d["player_response"] : d \in DeathResponses}
                /\ game_state = prior_state
           ELSE /\ result.exit = "commit"
                /\ result.value = response["player_response"]
                /\ \A f \in IdentityFields :
                       (f \in DOMAIN prior_state["player"]
                        /\ Len(prior_state["player"][f]) > 0) =>
                           game_state["player"][f] = prior_state["player"][f]
                /\ \A f \in TurnSafeFields :
                       f \in DOMAIN last => game_state[f] = last[f]

C15_Witness ==
    /\ TurnOver
    /\ AllRejected
    /\ result.exit = "commit"
    /\ validations[3].candidate["player"]["Name"] = "Kira"
    /\ game_state["player"]["Name"] = "Aria"
    /\ game_state["location"] = "Cave"
    /\ prior_state["location"] = "Town"
    /\ game_state["time_of_day"] = "13:00"

NoCurrency(inventory) == \A i \in 1..Len(inventory) : ~is_money(inventory[i])

InventoryOf(s) ==
    IF "player" \in DOMAIN s /\ "Inventory" \in DOMAIN s["player"]
    THEN s["player"]["Inventory"] ELSE <<>>

\* C16: starting from an inventory without a currency-keyword entry, the
\* session inventory never holds one: a candidate whose inventory holds one
\* is never reported valid, and Defensive Merge strips such entries.
C16_SessionInventoryHoldsNoCurrency ==
    /\ NoCurrency(InventoryOf(game_state))
    /\ \A i \in 1..Len(validations) :
           validations[i].is_valid => NoCurrency(InventoryOf(validations[i].candidate))
    /\ state_source # "none" => NoCurrency(InventoryOf(new_game_state))

C16_Witness ==
    /\ TurnOver
    /\ result.exit = "commit"
    /\ state_source = "merged"
    /\ ~NoCurrency(InventoryOf(validations[3].candidate))
    /\ InventoryOf(game_state) = <<"Torch", "Rope">>
    /\ game_state # prior_state

\* C17: starting from 0 <= HP <= Max_HP, the player's HP in the session
\* state stays within [0, Max_HP] after every turn.
C17_SessionHPWithinMaxHP ==
    /\ game_state["player"]["HP"] >= 0
    /\ game_state["player"]["HP"] <= game_state["player"]["Max_HP"]

\* C18: the danger field of the session state is always one of safe, low,
\* medium, high, very high.
C18_SessionDangerIsOrdinal ==
    game_state["danger"] \in {"safe", "low", "medium", "high", "very high"}

\* C19: the context log is append-only: no step shortens it or changes an
\* entry already in it, a step adds at most one entry at the end, and a turn
\* adds exactly one entry when it commits and none otherwise.
C19_ContextIsAppendOnly ==
    /\ [][/\ Len(context') \in {Len(context), Len(context) + 1}
          /\ SubSeq(context', 1, Len(context)) = context]_vars
    /\ [](/\ Len(context) \in {Len(prior_context), Len(prior_context) + 1}
          /\ SubSeq(context, 1, Len(prior_context)) = prior_context)
    /\ []((TurnOver /\ result.exit = "commit") =>
              Len(context) = Len(prior_context) + 1)
    /\ []((TurnOver /\ result.exit # "commit") => context = prior_context)

C19_Witness ==
    /\ TurnOver
    /\ result.exit = "commit"
    /\ Len(prior_context) = 1
    /\ Len(context) = 2
    /\ context[1] = prior_context[1]

(***************************************************************************)
(* Defensive Merge on its own: merge_states_defensively applied to prior   *)
(* states and candidates drawn from bounded sets, including states with    *)
(* keys missing.  prior_state holds the old state, candidate_state the     *)
(* candidate and new_game_state what the call returned.                    *)
(***************************************************************************)
MaxInventory == 3

MergeItems == {"Torch", "Gold coin"}

MergeInventories == UNION { [1..n -> MergeItems] : n \in 0..MaxInventory }

WithoutPlayerField(s, field) == Put(s, "player", Drop(s["player"], field))

\* a Magic object with three known spells and three known cantrips
ThreeSpells ==
    [Spells_Known |-> <<"Light", "Shield", "Sleep">>,
     Cantrips_Known |-> <<"Spark", "Mend", "Gust">>,
     Spell_Slots |-> <<2>>]

MergeOldStates ==
    { WithPlayer(InitialState, "Inventory", inventory) : inventory \in MergeInventories }
    \cup { Drop(InitialState, "player"),
           WithoutPlayerField(InitialState, "Inventory"),
           WithoutPlayerField(InitialState, "Magic"),
           WithPlayer(InitialState, "Name", ""),
           WithPlayer(InitialState, "Abilities", EmptyDict),
           WithPlayer(InitialState, "Level", 2),
           WithPlayer(InitialState, "Magic", ThreeSpells),
           WithPlayer(InitialState, "Pronouns", ""),
           WithoutPlayerField(InitialState, "AC"),
           Drop(InitialState, "location") }

\* a candidate that changes fields of every merge policy
ChangedCandidate ==
    LET player == [InitialPlayer EXCEPT
                      !.Name = "Kira", !.Race = "Orc", !.Pronouns = "he", !.AC = 12,
                      !.Max_HP = 9, !.HP = 1, !.Gold = 5, !.XP = 7,
                      !.Status = "Hurt", !.Level = 2,
                      !.Abilities = [InitialPlayer.Abilities EXCEPT !.Strength = 12],
                      !.Magic = [Spells_Known |-> <<"Light">>, Cantrips_Known |-> <<>>,
                                 Spell_Slots |-> <<1>>]]
    IN Put(Moved(InitialState), "player", player)

MergeCandidates ==
    { WithPlayer(ChangedCandidate, "Inventory", inventory) : inventory \in MergeInventories }
    \cup { Drop(ChangedCandidate, "player"),
           WithoutPlayerField(ChangedCandidate, "Inventory"),
           WithoutPlayerField(ChangedCandidate, "Magic"),
           Drop(Drop(ChangedCandidate, "location"), "date"),
           WithPlayer(ChangedCandidate, "Level", 0),
           WithPlayer(ChangedCandidate, "Name", ""),
           WithPlayer(ChangedCandidate, "Magic",
                      [Spells_Known |-> <<"Light", "Shield", "Sleep", "Fly">>,
                       Cantrips_Known |-> <<"Spark">>, Spell_Slots |-> <<0>>]),
           WithPlayer(ChangedCandidate, "Magic", [Spell_Slots |-> <<3>>]),
           [player |-> EmptyDict],
           EmptyDict }

MergeInit ==
    /\ prior_state \in MergeOldStates
    /\ candidate_state \in MergeCandidates \cup {prior_state}
    /\ game_state = prior_state
    /\ context = <<>>
    /\ location_manager = [configured |-> FALSE, locations_by_name |-> EmptyDict]
    /\ pc = "merge"
    /\ turns = 0
    /\ command = ""
    /\ retry_count = 0
    /\ actions = <<>>
    /\ action_index = 1
    /\ success_message = ""
    /\ response = NoResponse
    /\ attempt = 0
    /\ validation_feedback = <<>>
    /\ validation_result = NoValidation
    /\ new_game_state = None
    /\ result = NoResult
    /\ resolution = <<>>
    /\ state_source = "none"
    /\ oracle_calls = <<>>
    /\ validations = <<>>
    /\ prior_context = <<>>

MergeCall_UnguardedPlayer(old_state, new_state) ==
    IF "player" \in DOMAIN new_state /\ "player" \in DOMAIN old_state
    THEN [kind |-> "returned", value |-> merge_states_defensively(old_state, new_state)]
    ELSE [kind |-> "raised", value |-> None]

\* the call merge_states_defensively(old_state, new_state): every subscript in
\* the merge is behind a membership test or is a .get with a default, so for
\* dict-typed states the call returns
MergeCall(old_state, new_state) ==
    [kind |-> "returned", value |-> merge_states_defensively(old_state, new_state)]

ApplyMerge ==
    /\ pc = "merge"
    /\ LET outcome == MergeCall(prior_state, candidate_state)
       IN /\ new_game_state' = outcome.value
          /\ result' = [kind |-> outcome.kind, exit |-> "merge", value |-> ""]
    /\ state_source' = "merged"
    /\ pc' = "merged"
    /\ UNCHANGED <<game_state, context, location_manager, turns, command,
                   retry_count, actions, action_index, success_message, response,
                   attempt, validation_feedback, candidate_state, validation_result,
                   resolution, oracle_calls, validations, prior_state, prior_context>>

MergeNext == ApplyMerge

MergeSpec == MergeInit /\ [][MergeNext]_vars

Merged == pc = "merged"

BothHavePlayer == "player" \in DOMAIN prior_state /\ "player" \in DOMAIN candidate_state

PlayerOf(s) == Get(s, "player", EmptyDict)

\* the entries of an inventory that match no currency keyword, in order
WithoutCurrency(inventory) == SelectSeq(inventory, LAMBDA item : ~is_money(item))

\* C21 (as stated): merging a candidate equal to the old state returns the
\* old state unchanged, for every state.
C21_MergeOfSameStateIsIdentity ==
    (Merged /\ candidate_state = prior_state) => new_game_state = prior_state

\* C21 (amended): merging a candidate equal to the old state returns the old
\* state unchanged when the old inventory holds no currency-keyword entry;
\* when it holds one, the result differs from the old state at most in the
\* inventory, which is the old inventory without its currency-keyword entries
\* or, when the size rule rejects that one, the old inventory.
C21_MergeOfSameStateKeepsAllButCurrency ==
    (Merged /\ candidate_state = prior_state) =>
        IF NoCurrency(InventoryOf(prior_state))
        THEN new_game_state = prior_state
        ELSE /\ new_game_state["player"]["Inventory"]
                    \in {WithoutCurrency(InventoryOf(prior_state)), InventoryOf(prior_state)}
             /\ WithPlayer(new_game_state, "Inventory", InventoryOf(prior_state))
                    = prior_state

C21_Witness ==
    /\ Merged
    /\ candidate_state = prior_state
    /\ new_game_state = prior_state
    /\ InventoryOf(prior_state) = <<"Torch", "Torch", "Torch">>

SafePlayerFieldsClaimed == {"HP", "Gold", "Status", "XP"}

\* C22 (as stated): in the merged state every safe field the candidate
\* supplies has the candidate's value: the nine safe top-level fields, the
\* player fields HP, Gold, Status, XP, and the spell slots.
C22_SafeFieldsTakeCandidateValue ==
    Merged =>
        /\ \A f \in ToSet(safe_top_level_fields) \cap DOMAIN candidate_state :
               new_game_state[f] = candidate_state[f]
        /\ \A f \in SafePlayerFieldsClaimed \cap DOMAIN PlayerOf(candidate_state) :
               /\ f \in DOMAIN PlayerOf(new_game_state)
               /\ new_game_state["player"][f] = candidate_state["player"][f]
        /\ ("Magic" \in DOMAIN PlayerOf(candidate_state)
            /\ "Spell_Slots" \in DOMAIN candidate_state["player"]["Magic"]) =>
               /\ "Magic" \in DOMAIN PlayerOf(new_game_state)
               /\ new_game_state["player"]["Magic"]["Spell_Slots"]
                      = candidate_state["player"]["Magic"]["Spell_Slots"]

\* C22 (amended): in the merged state every safe top-level field the
\* candidate supplies has the candidate's value; when the old state has a
\* player object, so do the player fields HP, Gold, Status, XP and the spell
\* slots the candidate supplies; when the old state has no player object the
\* merged state has none either.
C22_SafeFieldsTakeCandidateValueGivenOldPlayer ==
    Merged =>
        /\ \A f \in ToSet(safe_top_level_fields) \cap DOMAIN candidate_state :
               new_game_state[f] = candidate_state[f]
        /\ "player" \notin DOMAIN prior_state => "player" \notin DOMAIN new_game_state
        /\ "player" \in DOMAIN prior_state =>
               /\ \A f \in SafePlayerFieldsClaimed \cap DOMAIN PlayerOf(candidate_state) :
                      new_game_state["player"][f] = candidate_state["player"][f]
               /\ ("Magic" \in DOMAIN PlayerOf(candidate_state)
                   /\ "Spell_Slots" \in DOMAIN candidate_state["player"]["Magic"]) =>
                      new_game_state["player"]["Magic"]["Spell_Slots"]
                          = candidate_state["player"]["Magic"]["Spell_Slots"]

C22_Witness ==
    /\ Merged
    /\ prior_state = WithPlayer(InitialState, "Magic", ThreeSpells)
    /\ candidate_state = WithPlayer(ChangedCandidate, "Magic", [Spell_Slots |-> <<3>>])
    /\ candidate_state["player"]["Gold"] = 5
    /\ prior_state["player"]["Gold"] = 0
    /\ new_game_state["player"]["Gold"] = 5
    /\ new_game_state["player"]["Magic"]["Spell_Slots"] = <<3>>
    /\ new_game_state["location"] = "Cave"
    /\ new_game_state["player"]["Name"] = "Aria"

\* C23: in the merged inventory no item occurs more often than it occurs in
\* the old inventory plus one.
C23_MergedItemCountAtMostOldPlusOne ==
    Merged =>
        \A item \in ToSet(InventoryOf(new_game_state)) :
            Count(InventoryOf(new_game_state), item)
                <= Count(InventoryOf(prior_state), item) + 1

C23_Witness ==
    /\ Merged
    /\ BothHavePlayer
    /\ InventoryOf(prior_state) = <<>>
    /\ InventoryOf(candidate_state) = <<"Torch", "Torch", "Torch">>
    /\ InventoryOf(new_game_state) = <<"Torch">>

Distinct(inventory) == Cardinality(ToSet(inventory))

\* C24: the cleaned and capped candidate inventory is accepted exactly when
\* its distinct-item count is at least half the old inventory's distinct-item
\* count, or the old inventory had two or fewer items; otherwise the merged
\* inventory is the old inventory.
C24_InventoryAcceptedByDistinctCount ==
    (Merged /\ BothHavePlayer /\ "Inventory" \in DOMAIN candidate_state["player"]) =>
        LET old_inventory == InventoryOf(prior_state)
            capped == remove_excessive_duplicates(old_inventory,
                          clean_inventory_of_money(InventoryOf(candidate_state)))
        IN InventoryOf(new_game_state) =
               IF 2 * Distinct(capped) >= Distinct(old_inventory)
                  \/ Len(old_inventory) <= 2
               THEN capped
               ELSE old_inventory

IdentityFieldsOfMerge == {"Name", "Race", "Class", "Abilities", "Proficiencies"}

EmptyValue(field, d) ==
    \/ field \notin DOMAIN d
    \/ IF field \in {"Abilities", "Proficiencies"}
       THEN DOMAIN d[field] = {}
       ELSE d[field] = ""

\* C25: in the merged player each of Name, Race, Class, Abilities and
\* Proficiencies has its old value whenever the old value is non-empty, and
\* has the candidate's value only when the old value was empty (or absent)
\* and the candidate's is non-empty.
C25_IdentityKeptUnlessOldEmpty ==
    (Merged /\ "player" \in DOMAIN prior_state) =>
        LET old_player == prior_state["player"]
            new_player == PlayerOf(candidate_state)
            merged_player == new_game_state["player"]
        IN \A field \in IdentityFieldsOfMerge :
               IF EmptyValue(field, old_player) /\ ~EmptyValue(field, new_player)
               THEN merged_player[field] = new_player[field]
               ELSE /\ field \in DOMAIN merged_player <=> field \in DOMAIN old_player
                    /\ field \in DOMAIN old_player =>
                           merged_player[field] = old_player[field]

C25_Witness ==
    /\ Merged
    /\ prior_state = WithPlayer(InitialState, "Name", "")
    /\ candidate_state = WithoutPlayerField(ChangedCandidate, "Magic")
    /\ candidate_state["player"]["Name"] = "Kira"
    /\ new_game_state["player"]["Name"] = "Kira"
    /\ candidate_state["player"]["Race"] = "Orc"
    /\ new_game_state["player"]["Race"] = "Elf"

\* C26: the merged Level is never lower than the old Level: it is the
\* candidate's Level when that is >= the old one and the old Level otherwise.
C26_LevelNeverDecreases ==
    (Merged /\ "player" \in DOMAIN prior_state) =>
        LET old_player == prior_state["player"]
            new_player == PlayerOf(candidate_state)
            merged_player == new_game_state["player"]
        IN /\ merged_player["Level"] >= old_player["Level"]
           /\ merged_player["Level"] =
                  IF "Level" \in DOMAIN new_player
                     /\ new_player["Level"] >= old_player["Level"]
                  THEN new_player["Level"]
                  ELSE old_player["Level"]

C26_Witness ==
    /\ Merged
    /\ prior_state = WithPlayer(InitialState, "Level", 2)
    /\ candidate_state = WithPlayer(ChangedCandidate, "Level", 0)
    /\ new_game_state["player"]["Level"] = 2

\* C27: the merged known-spells list (and likewise the known-cantrips list)
\* is the candidate's only if the candidate's set is a superset of the old
\* set or the old set has two or fewer entries; otherwise it is the old
\* list, so with more than two old entries no known spell is lost.
C27_KnownSpellsReplacedOnlyBySuperset ==
    (Merged /\ "player" \in DOMAIN prior_state
            /\ "Magic" \in DOMAIN prior_state["player"]) =>
        LET old_magic == prior_state["player"]["Magic"]
            new_magic == Get(PlayerOf(candidate_state), "Magic", EmptyDict)
            merged_magic == new_game_state["player"]["Magic"]
        IN \A spell_type \in {"Spells_Known", "Cantrips_Known"} :
               LET old_spells == ToSet(old_magic[spell_type])
               IN /\ merged_magic[spell_type] =
                         IF spell_type \in DOMAIN new_magic
                            /\ (old_spells \subseteq ToSet(new_magic[spell_type])
                                \/ Cardinality(old_spells) <= 2)
                         THEN new_magic[spell_type]
                         ELSE old_magic[spell_type]
                  /\ Cardinality(old_spells) > 2 =>
                         old_spells \subseteq ToSet(merged_magic[spell_type])

C27_Witness ==
    /\ Merged
    /\ prior_state = WithPlayer(InitialState, "Magic", ThreeSpells)
    /\ "Magic" \in DOMAIN PlayerOf(candidate_state)
    /\ Get(candidate_state["player"]["Magic"], "Cantrips_Known", <<>>) = <<"Spark">>
    /\ new_game_state["player"]["Magic"]["Cantrips_Known"] = <<"Spark", "Mend", "Gust">>
    /\ new_game_state["player"]["Magic"]["Spells_Known"] = <<"Light", "Shield", "Sleep", "Fly">>

(***************************************************************************)
(* The State Validator on its own: validate_state_changes applied to old   *)
(* states, candidates and action summaries drawn from bounded sets.        *)
(* prior_state holds the old state, candidate_state the candidate,         *)
(* success_message the action summary and validation_result what the call  *)
(* returned.                                                               *)
(***************************************************************************)
ValidateItems == {"Torch", "10 gold pieces"}

ValidateInventories == UNION { [1..n -> ValidateItems] : n \in 0..MaxInventory }

\* the player of a freshly constructed GameState: identity fields empty
UnnamedPlayer ==
    [InitialPlayer EXCEPT !.Name = "", !.Pronouns = "", !.Race = "", !.Class = "",
                          !.Inventory = <<>>]

ValidateOldStates ==
    { WithPlayer(InitialState, "Inventory", inventory) : inventory \in ValidateInventories }
    \cup { Put(InitialState, "player", UnnamedPlayer),
           Put(InitialState, "player", EmptyDict),
           Drop(InitialState, "player"),
           InitialState,
           WithPlayer(InitialState, "Inventory", <<"Torch", "Rope", "Lamp">>),
           WithPlayer(InitialState, "Inventory", <<"Torch", "Rope", "10 gold pieces">>),
           WithPlayer(InitialState, "Magic", ThreeSpells) }

ValidateCandidates ==
    { WithPlayer(InitialState, "Inventory", inventory) : inventory \in ValidateInventories }
    \cup { WithPlayer(InitialState, "Name", "Kira"),
           WithPlayer(InitialState, "Race", "Orc"),
           WithPlayer(InitialState, "Class", "Rogue"),
           WithPlayer(InitialState, "Pronouns", "he"),
           WithPlayer(WithPlayer(InitialState, "Name", "Kira"), "Inventory", <<>>),
           WithoutPlayerField(InitialState, "Name"),
           Put(InitialState, "player", EmptyDict),
           Drop(InitialState, "player"),
           InitialState,
           WithPlayer(InitialState, "Inventory", <<"Rope">>),
           WithPlayer(InitialState, "Inventory", <<"Rope", "10 gold pieces">>),
           WithPlayer(InitialState, "Inventory", <<"Lamp", "Rope">>),
           WithPlayer(InitialState, "Magic", ThreeSpells),
           WithPlayer(InitialState, "Magic",
                      [Spells_Known |-> <<"Sleep", "Light", "Shield">>,
                       Cantrips_Known |-> <<"Gust", "Mend", "Spark">>,
                       Spell_Slots |-> <<1>>]),
           WithPlayer(InitialState, "Magic",
                      [ThreeSpells EXCEPT !.Spells_Known = <<"Light", "Shield">>]),
           WithPlayer(InitialState, "Magic",
                      [ThreeSpells EXCEPT !.Cantrips_Known = <<"Spark", "Mend", "Gust", "Glow">>]),
           WithoutPlayerField(InitialState, "Magic") }

Summaries ==
    { "The player opens a door",
      "KIRA steps forward",
      "Aria is renamed",
      "The orc polymorphs",
      "You find several torches",
      "You find three torches",
      "You pick up 3 torches",
      "The player drops the torch",
      "You learn a new spell",
      "You read an old scroll" }

ValidateInit ==
    /\ prior_state \in ValidateOldStates
    /\ candidate_state \in ValidateCandidates
    /\ success_message \in Summaries
    /\ game_state = prior_state
    /\ context = <<>>
    /\ location_manager = [configured |-> FALSE, locations_by_name |-> EmptyDict]
    /\ pc = "validate"
    /\ turns = 0
    /\ command = ""
    /\ retry_count = 0
    /\ actions = <<>>
    /\ action_index = 1
    /\ response = NoResponse
    /\ attempt = 0
    /\ validation_feedback = <<>>
    /\ validation_result = NoValidation
    /\ new_game_state = None
    /\ result = NoResult
    /\ resolution = <<>>
    /\ state_source = "none"
    /\ oracle_calls = <<>>
    /\ validations = <<>>
    /\ prior_context = <<>>

\* validation_result = validate_state_changes(old_state, new_state, action_description)
ApplyValidate ==
    /\ pc = "validate"
    /\ validation_result' =
           validate_state_changes(prior_state, candidate_state, success_message)
    /\ pc' = "validated"
    /\ UNCHANGED <<game_state, context, location_manager, turns, command,
                   retry_count, actions, action_index, success_message, response,
                   attempt, validation_feedback, candidate_state, new_game_state,
                   result, resolution, state_source, oracle_calls, validations,
                   prior_state, prior_context>>

ValidateNext == ApplyValidate

ValidateSpec == ValidateInit /\ [][ValidateNext]_vars

Validated == pc = "validated"

IssuesOf(v) == {v.issues[i] : i \in 1..Len(v.issues)}

OldPlayer == Get(prior_state, "player", EmptyDict)

CandidatePlayer == Get(candidate_state, "player", EmptyDict)

\* the value occurs, case-insensitively, in the summary
OccursIn(value, summary) == Len(value) > 0 /\ Contains(Lower(value), Lower(summary))

FieldKeywordsClaimed(field) ==
    CASE field = "Name" -> {"rename", "call", "name"}
      [] field = "Race" -> {"transform", "polymorph", "change race"}
      [] field = "Class" -> {"multiclass", "change class", "become"}
      [] field = "Pronouns" -> {"pronoun", "gender"}

ChangeExplained(field, summary) ==
    \/ OccursIn(Get(OldPlayer, field, ""), summary)
    \/ OccursIn(Get(CandidatePlayer, field, ""), summary)
    \/ \E k \in FieldKeywordsClaimed(field) : Contains(k, Lower(summary))

\* C28: the validator flags (valid = false) any candidate in which Name,
\* Race, Class or Pronouns differs from the old state, unless the old or the
\* new value occurs case-insensitively in the summary or a keyword of that
\* field occurs in the summary.
C28_UnexplainedIdentityChangeIsInvalid ==
    Validated =>
        \A field \in {"Name", "Race", "Class", "Pronouns"} :
            (GetDiffers(OldPlayer, CandidatePlayer, field)
             /\ ~ChangeExplained(field, success_message))
            => ~validation_result.is_valid

OldInventory == Get(OldPlayer, "Inventory", <<>>)

CandidateInventory == Get(CandidatePlayer, "Inventory", <<>>)

\* C29: the validator returns valid = false, with an issue naming the item,
\* for every candidate whose inventory holds an entry matching the currency
\* keyword list (an added entry in particular), whatever the action summary
\* says.
C29_CurrencyEntryIsInvalid ==
    Validated =>
        \A i \in 1..Len(CandidateInventory) :
            is_money(CandidateInventory[i])
            => /\ ~validation_result.is_valid
               /\ <<"Money item found in inventory", CandidateInventory[i]>>
                      \in IssuesOf(validation_result)

C29_Witness ==
    /\ Validated
    /\ OldInventory = <<>>
    /\ "Inventory" \in DOMAIN OldPlayer
    /\ CandidateInventory = <<"10 gold pieces">>
    /\ success_message = "You find several torches"
    /\ ~validation_result.is_valid
    /\ validation_result.issues = << <<"Money item found in inventory", "10 gold pieces">> >>

MultipleWordsClaimed == {"multiple", "several", "many", "bunch", "stack", "pile"}

\* a number word, or the candidate count written as a number
NumberWordsClaimed(new_count) == {"two", "three", "four", "five", ToString(new_count)}

AcquisitionMentioned(new_count, summary) ==
    \E k \in MultipleWordsClaimed \cup NumberWordsClaimed(new_count) :
        Contains(k, Lower(summary))

DuplicateFlagged(item) ==
    \E i \in 1..Len(validation_result.issues) :
        /\ validation_result.issues[i][1] = "Unexpected duplicate items"
        /\ validation_result.issues[i][3] = item

DisposalWordsClaimed ==
    {"drop", "sell", "trade", "use", "consume", "break", "destroy", "give", "lose"}

DisposalMentioned(summary) == \E k \in DisposalWordsClaimed : Contains(k, Lower(summary))

LossFlagged ==
    \E i \in 1..Len(validation_result.issues) :
        /\ validation_result.issues[i][1] = "Unexpected inventory loss"
        /\ validation_result.issues[i][2] = ToSet(OldInventory) \ ToSet(CandidateInventory)

\* the candidate is the old state with some inventory entries removed
OnlyItemsRemoved ==
    /\ "player" \in DOMAIN prior_state
    /\ "Inventory" \in DOMAIN prior_state["player"]
    /\ candidate_state = WithPlayer(prior_state, "Inventory", CandidateInventory)
    /\ \A item \in ToSet(CandidateInventory) :
           Count(CandidateInventory, item) <= Count(OldInventory, item)
    /\ ToSet(OldInventory) \ ToSet(CandidateInventory) # {}

\* C31 (as stated): a candidate in which an item of the old inventory is
\* absent is flagged unless the summary contains a disposal keyword; when a
\* disposal keyword is present and nothing else changed the result is valid.
C31_LossFlaggedUnlessDisposal ==
    Validated =>
        /\ (ToSet(OldInventory) \ ToSet(CandidateInventory) # {}
             /\ ~DisposalMentioned(success_message))
            => (LossFlagged /\ ~validation_result.is_valid)
        /\ (OnlyItemsRemoved /\ DisposalMentioned(success_message))
            => validation_result.is_valid

DistinctCount(inventory) == Cardinality(ToSet(inventory))

\* C31 (amended): as above, and with a disposal keyword and nothing else
\* changed the result is valid provided the inventory that remains holds no
\* currency entry and the loss is not a drop to less than half of more than
\* two distinct items.
C31_LossFlaggedUnlessDisposalOrGuard ==
    Validated =>
        /\ (ToSet(OldInventory) \ ToSet(CandidateInventory) # {}
             /\ ~DisposalMentioned(success_message))
            => (LossFlagged /\ ~validation_result.is_valid)
        /\ DisposalMentioned(success_message) => ~LossFlagged
        /\ (/\ OnlyItemsRemoved
             /\ DisposalMentioned(success_message)
             /\ NoCurrency(CandidateInventory)
             /\ ~(DistinctCount(OldInventory) > 2
                  /\ 2 * DistinctCount(CandidateInventory) < DistinctCount(OldInventory)))
            => validation_result.is_valid

C31_Witness ==
    /\ Validated
    /\ prior_state = InitialState
    /\ OldInventory = <<"Torch", "Rope">>
    /\ candidate_state = WithPlayer(InitialState, "Inventory", <<"Rope">>)
    /\ success_message = "The player drops the torch"
    /\ validation_result = [is_valid |-> TRUE, issues |-> <<>>]

\* C32: when the old inventory has more than two distinct items and the
\* candidate has fewer than half as many distinct items, the result is
\* valid = false, whatever keyword the summary contains.
C32_DramaticReductionIsInvalid ==
    (/\ Validated
     /\ DistinctCount(OldInventory) > 2
     /\ 2 * DistinctCount(CandidateInventory) < DistinctCount(OldInventory))
    => /\ ~validation_result.is_valid
       /\ <<"Dramatic inventory reduction", DistinctCount(OldInventory),
             DistinctCount(CandidateInventory)>> \in IssuesOf(validation_result)

C32_Witness ==
    /\ Validated
    /\ OldInventory = <<"Torch", "Rope", "Lamp">>
    /\ CandidateInventory = <<"Rope">>
    /\ success_message = "The player drops the torch"
    /\ ~validation_result.is_valid
    /\ validation_result.issues = << <<"Dramatic inventory reduction", 3, 1>> >>

KnownSet(player, list) == ToSet(Get(Get(player, "Magic", EmptyDict), list, <<>>))

SpellWordsClaimed == {"learn", "forget", "teach", "scroll", "spellbook", "level up"}

CantripWordsClaimed == {"learn", "forget", "teach", "level up"}

WordMentioned(words, summary) == \E k \in words : Contains(k, Lower(summary))

MagicIssues ==
    {issue \in IssuesOf(validation_result) :
        issue[1] \in {"Unexpected spell loss", "Unexpected spell gain",
                      "Unexpected cantrip changes"}}

\* C33: a candidate whose known-spells set differs from the old one is
\* flagged unless the summary contains a learning/forgetting keyword for
\* spells, one whose known-cantrips set differs is flagged unless the summary
\* contains a learning/forgetting keyword for cantrips; with such a keyword of
\* both lists nothing is flagged by the magic pass, and a candidate with the
\* same two sets is never flagged by it.
C33_MagicChangeFlaggedUnlessLearning ==
    Validated =>
        LET spells_differ == KnownSet(OldPlayer, "Spells_Known")
                             # KnownSet(CandidatePlayer, "Spells_Known")
            cantrips_differ == KnownSet(OldPlayer, "Cantrips_Known")
                               # KnownSet(CandidatePlayer, "Cantrips_Known")
        IN /\ (spells_differ /\ ~WordMentioned(SpellWordsClaimed, success_message))
               => /\ ~validation_result.is_valid
                  /\ \E issue \in MagicIssues :
                         issue[1] \in {"Unexpected spell loss", "Unexpected spell gain"}
           /\ (cantrips_differ /\ ~WordMentioned(CantripWordsClaimed, success_message))
               => /\ ~validation_result.is_valid
                  /\ \E issue \in MagicIssues : issue[1] = "Unexpected cantrip changes"
           /\ WordMentioned(CantripWordsClaimed, success_message) => MagicIssues = {}
           /\ (~spells_differ /\ ~cantrips_differ) => MagicIssues = {}

C33_Witness ==
    /\ Validated
    /\ prior_state = WithPlayer(InitialState, "Magic", ThreeSpells)
    /\ KnownSet(CandidatePlayer, "Cantrips_Known") = {"Spark", "Mend", "Gust", "Glow"}
    /\ success_message = "You read an old scroll"
    /\ ~validation_result.is_valid
    /\ Cardinality(MagicIssues) = 1

(***************************************************************************)
(* ActionResolver._roll_dice on its own: one call per behaviour, with the  *)
(* expression and the two flags drawn from bounded sets and every          *)
(* d20.roll(...).total of the call drawn from the totals of the            *)
(* expression.  actions holds the one action rolled for; resolution        *)
(* records the totals drawn, in order, and the value returned.            *)
(***************************************************************************)
MaxSides == 4

RollExpressions == { "1d" \o ToString(sides) : sides \in 2..MaxSides } \cup {"1d2+1"}

RollInit ==
    /\ \E expression \in RollExpressions, advantage \in BOOLEAN, disadvantage \in BOOLEAN :
           actions = << DiceAction(expression, advantage, disadvantage) >>
    /\ pc = "roll"
    /\ game_state = InitialState
    /\ context = <<>>
    /\ location_manager = [configured |-> FALSE, locations_by_name |-> EmptyDict]
    /\ turns = 0
    /\ command = ""
    /\ retry_count = 0
    /\ action_index = 1
    /\ success_message = ""
    /\ response = NoResponse
    /\ attempt = 0
    /\ validation_feedback = <<>>
    /\ candidate_state = None
    /\ validation_result = NoValidation
    /\ new_game_state = None
    /\ result = NoResult
    /\ resolution = <<>>
    /\ state_source = "none"
    /\ oracle_calls = <<>>
    /\ validations = <<>>
    /\ prior_state = InitialState
    /\ prior_context = <<>>

\* self._roll_dice(action.dice_to_roll, action.advantage, action.disadvantage)
ApplyRoll ==
    /\ pc = "roll"
    /\ LET action == actions[1]
           evaluations == roll_count(action.advantage, action.disadvantage)
       IN \E rolls \in [1..evaluations -> DiceTotals(action.dice_to_roll)] :
             /\ resolution' = << [drawn |-> rolls,
                                  total |-> roll_dice(rolls, action.advantage,
                                                      action.disadvantage)] >>
             /\ result' = Returned("_roll_dice", "")
    /\ pc' = "rolled"
    /\ UNCHANGED <<game_state, context, location_manager, turns, command,
                   retry_count, actions, action_index, success_message, response,
                   attempt, validation_feedback, candidate_state, validation_result,
                   new_game_state, state_source, oracle_calls, validations,
                   prior_state, prior_context>>

RollNext == ApplyRoll

RollSpec == RollInit /\ [][RollNext]_vars

RollReturned == pc = "rolled"

Larger(a, b) == IF a > b THEN a ELSE b

Smaller(a, b) == IF a < b THEN a ELSE b

\* C34: with advantage only the expression is evaluated twice and the larger
\* total is returned; with disadvantage only it is evaluated twice and the
\* smaller is returned; with neither flag it is evaluated once and that total
\* is returned.
C34_AdvantageTakesLargerDisadvantageSmaller ==
    RollReturned =>
        LET action == actions[1]
            drawn == resolution[1].drawn
            total == resolution[1].total
        IN /\ (action.advantage /\ ~action.disadvantage)
               => (Len(drawn) = 2 /\ total = Larger(drawn[1], drawn[2]))
           /\ (action.disadvantage /\ ~action.advantage)
               => (Len(drawn) = 2 /\ total = Smaller(drawn[1], drawn[2]))
           /\ (~action.advantage /\ ~action.disadvantage)
               => (Len(drawn) = 1 /\ total = drawn[1])

C34_Witness ==
    /\ RollReturned
    /\ actions[1].advantage /\ ~actions[1].disadvantage
    /\ actions[1].dice_to_roll = "1d3"
    /\ resolution[1].drawn = <<1, 3>>
    /\ resolution[1].total = 3

\* C39: with both flags set the expression is evaluated three times and the
\* value returned is min(max(r1, r2), r3); the flags do not cancel.
C39_BothFlagsTakeMinOfMaxAndThird ==
    RollReturned =>
        LET action == actions[1]
            drawn == resolution[1].drawn
        IN (action.advantage /\ action.disadvantage)
           => /\ Len(drawn) = 3
              /\ resolution[1].total = Smaller(Larger(drawn[1], drawn[2]), drawn[3])

C39_Witness ==
    /\ RollReturned
    /\ actions[1].advantage /\ actions[1].disadvantage
    /\ actions[1].dice_to_roll = "1d3"
    /\ resolution[1].drawn = <<2, 3, 1>>
    /\ resolution[1].total = 1

\* C38: on the death path (accepted or merged HP <= 0) the turn returns
\* without writing the accepted or merged state into the session GameState:
\* the session state after the death turn is the pre-turn state, and the turn
\* that follows starts from that state, with the player's earlier HP.
C38_DeathTurnLeavesSessionState ==
    [][ /\ (pc = "check_death" /\ PlayerDead(new_game_state) /\ result'.exit = "death")
           => /\ game_state' = prior_state
              /\ game_state' = game_state
              /\ game_state'["player"]["HP"] > new_game_state["player"]["HP"]
        /\ (pc = "idle" /\ result.exit = "death" /\ pc' = "get_actions")
           => /\ game_state' = prior_state
              /\ prior_state' = prior_state
              /\ game_state'["player"]["HP"] > 0 ]_vars

C38_Witness ==
    /\ TurnOver
    /\ result.exit = "death"
    /\ state_source = "accepted"
    /\ new_game_state["player"]["HP"] = 0
    /\ game_state = prior_state
    /\ game_state["player"]["HP"] = 2
    /\ turns = 1

\* C40: Defensive Merge never takes the player's Pronouns, Max HP or AC from
\* the candidate: in the merged state each of the three is what it was in the
\* old state (absent when it was absent), whatever the candidate supplies and
\* even when the old value is empty.
C40_PronounsMaxHPAndACKeepOldValue ==
    Merged =>
        \A field \in {"Pronouns", "Max_HP", "AC"} :
            /\ (field \in DOMAIN PlayerOf(new_game_state))
                   = (field \in DOMAIN PlayerOf(prior_state))
            /\ field \in DOMAIN PlayerOf(prior_state)
                   => PlayerOf(new_game_state)[field] = PlayerOf(prior_state)[field]

C40_Witness ==
    /\ Merged
    /\ prior_state = WithPlayer(InitialState, "Pronouns", "")
    /\ candidate_state = WithoutPlayerField(ChangedCandidate, "Magic")
    /\ candidate_state["player"]["Pronouns"] = "he"
    /\ candidate_state["player"]["Max_HP"] = 9
    /\ candidate_state["player"]["AC"] = 12
    /\ new_game_state["player"]["Pronouns"] = ""
    /\ new_game_state["player"]["Max_HP"] = 3
    /\ new_game_state["player"]["AC"] = 10
    /\ new_game_state["player"]["HP"] = 1

(***************************************************************************)
(* CharacterManager.apply_damage, apply_healing and update_spell_slots on  *)
(* a session whose player has HP, Max HP, Status and Magic.  game_state is *)
(* the session state the calls write to; oracle_calls records the calls    *)
(* made, each with the player before and after it.  Amounts and changes    *)
(* are integers and updates name one slot level, so the isinstance checks  *)
(* of the three methods pass.                                             *)
(***************************************************************************)
MaxCalls == 2

CharMaxHP == 3

MaxAmount == 2

SlotEntry(level, total, used) == [level |-> level, total |-> total, used |-> used]

CharacterPlayer(hp, slots) ==
    LET status == IF hp = 0 THEN "Dead"
                  ELSE IF hp < CharMaxHP THEN "Injured" ELSE "Normal"
    IN Put(Put(Put(Put(EmptyDict, "HP", hp), "Max HP", CharMaxHP), "Status", status),
           "Magic", Put(EmptyDict, "Spell Slots", slots))

Max(a, b) == IF a > b THEN a ELSE b

Min(a, b) == IF a < b THEN a ELSE b

\* new_hp = max(0, current_hp - amount); Status follows new_hp
apply_damage(player, amount) ==
    LET current_hp == player["HP"]
        new_hp == Max(0, current_hp - amount)
        status == IF new_hp = 0 THEN "Dead"
                  ELSE IF new_hp < current_hp THEN "Injured" ELSE "Normal"
    IN [kind |-> "returned",
        player |-> Put(Put(player, "HP", new_hp), "Status", status)]

\* raises on a negative amount; new_hp = min(max_hp, current_hp + amount)
apply_healing(player, amount) ==
    IF amount < 0 THEN [kind |-> "raised", player |-> player]
    ELSE LET current_hp == player["HP"]
             max_hp == player["Max HP"]
             new_hp == Min(max_hp, current_hp + amount)
             status == IF new_hp = 0 THEN "Dead"
                       ELSE IF new_hp < max_hp THEN "Injured" ELSE "Normal"
         IN [kind |-> "returned",
             player |-> Put(Put(player, "HP", new_hp), "Status", status)]

\* int(level[0])
SlotLevel(level) == DigitValue(SubSeq(level, 1, 1))

\* next((slot for slot in slots if slot["level"] == n), None): 0 for None
SlotIndex(slots, n) ==
    IF \E i \in 1..Len(slots) : slots[i].level = n
    THEN CHOOSE i \in 1..Len(slots) :
             slots[i].level = n /\ \A j \in 1..(i - 1) : slots[j].level # n
    ELSE 0

\* update_spell_slots(game_state, {level: change}, recover)
update_spell_slots(player, level, change, recover) ==
    LET slots == player["Magic"]["Spell Slots"]
        index == SlotIndex(slots, SlotLevel(level))
        WithSlots(new_slots) ==
            Put(player, "Magic", Put(player["Magic"], "Spell Slots", new_slots))
    IN IF index = 0
       THEN IF change < 0
            THEN [kind |-> "raised", player |-> player]
            ELSE [kind |-> "returned",
                  player |-> WithSlots(Append(slots, SlotEntry(SlotLevel(level), change, 0)))]
       ELSE LET slot_entry == slots[index]
                updated ==
                    IF recover
                    THEN [slot_entry EXCEPT !.used = Max(0, slot_entry.used + change)]
                    ELSE [slot_entry EXCEPT !.total = Max(0, slot_entry.total + change),
                                            !.used = Max(0, slot_entry.used + change)]
            IN [kind |-> "returned",
                player |-> WithSlots([slots EXCEPT ![index] = updated])]

CharacterInit ==
    /\ \E hp \in 0..CharMaxHP,
          slots \in { <<>>, <<SlotEntry(1, 2, 0)>>, <<SlotEntry(1, 2, 1)>> } :
           game_state = [player |-> CharacterPlayer(hp, slots)]
    /\ prior_state = game_state
    /\ pc = "character"
    /\ context = <<>>
    /\ location_manager = [configured |-> FALSE, locations_by_name |-> EmptyDict]
    /\ turns = 0
    /\ command = ""
    /\ retry_count = 0
    /\ actions = <<>>
    /\ action_index = 1
    /\ success_message = ""
    /\ response = NoResponse
    /\ attempt = 0
    /\ validation_feedback = <<>>
    /\ candidate_state = None
    /\ validation_result = NoValidation
    /\ new_game_state = None
    /\ result = NoResult
    /\ resolution = <<>>
    /\ state_source = "none"
    /\ oracle_calls = <<>>
    /\ validations = <<>>
    /\ prior_context = <<>>

\* the call writes game_state.current_state["player"] in place
CharacterCall(name, arguments, outcome) ==
    /\ pc = "character"
    /\ Len(oracle_calls) < MaxCalls
    /\ game_state' = Put(game_state, "player", outcome.player)
    /\ oracle_calls' = Append(oracle_calls,
                              [name |-> name, arguments |-> arguments,
                               outcome |-> outcome.kind,
                               before |-> game_state["player"],
                               after |-> outcome.player])
    /\ result' = [kind |-> outcome.kind, exit |-> name, value |-> ""]
    /\ UNCHANGED <<context, location_manager, pc, turns, command, retry_count,
                   actions, action_index, success_message, response, attempt,
                   validation_feedback, candidate_state, validation_result,
                   new_game_state, resolution, state_source, validations,
                   prior_state, prior_context>>

ApplyDamage ==
    \E amount \in (-MaxAmount)..MaxAmount :
        CharacterCall("apply_damage", [amount |-> amount],
                      apply_damage(game_state["player"], amount))

ApplyHealing ==
    \E amount \in (-1)..MaxAmount :
        CharacterCall("apply_healing", [amount |-> amount],
                      apply_healing(game_state["player"], amount))

UpdateSpellSlots ==
    \E level \in {"1st", "2nd"}, change \in (-MaxAmount)..MaxAmount, recover \in BOOLEAN :
        CharacterCall("update_spell_slots",
                      [level |-> level, change |-> change, recover |-> recover],
                      update_spell_slots(game_state["player"], level, change, recover))

CharacterNext == ApplyDamage \/ ApplyHealing \/ UpdateSpellSlots

CharacterSpec == CharacterInit /\ [][CharacterNext]_vars

\* C36: after any sequence of apply_damage and apply_healing calls (healing
\* through a negative damage amount included) on a character that starts with
\* 0 <= HP <= Max HP, HP is within [0, Max HP].
C36_HPStaysWithinMaxHP ==
    pc = "character" =>
        /\ game_state["player"]["HP"] >= 0
        /\ game_state["player"]["HP"] <= game_state["player"]["Max HP"]

SlotOf(player, level) ==
    player["Magic"]["Spell Slots"][SlotIndex(player["Magic"]["Spell Slots"], SlotLevel(level))]

HasSlot(player, level) ==
    SlotIndex(player["Magic"]["Spell Slots"], SlotLevel(level)) # 0

SlotWithinTotal(slot) == 0 <= slot.used /\ slot.used <= slot.total

\* a call that uses n >= 1 slots of an existing level
UsesSlots(call) ==
    /\ call.name = "update_spell_slots"
    /\ call.arguments.change < 0
    /\ ~call.arguments.recover
    /\ HasSlot(call.before, call.arguments.level)

\* C37: for an existing slot level, using n slots (change -n, recover False)
\* raises the level's used count by n, and a following recovery of n slots
\* (change +n, recover True) brings the used count back to its previous
\* value, with 0 <= used <= total throughout.
C37_UseThenRecoverRestoresUsed ==
    \A i \in 1..Len(oracle_calls) :
        UsesSlots(oracle_calls[i]) =>
            LET use == oracle_calls[i]
                level == use.arguments.level
                n == 0 - use.arguments.change
                IsRecovery(call) ==
                    /\ call.name = "update_spell_slots"
                    /\ call.arguments.level = level
                    /\ call.arguments.change = n
                    /\ call.arguments.recover
            IN /\ SlotWithinTotal(SlotOf(use.before, level))
                  => /\ SlotOf(use.after, level).used = SlotOf(use.before, level).used + n
                     /\ SlotWithinTotal(SlotOf(use.after, level))
               /\ (i < Len(oracle_calls) /\ IsRecovery(oracle_calls[i + 1]))
                  => /\ SlotOf(oracle_calls[i + 1].after, level).used
                            = SlotOf(use.before, level).used
                     /\ SlotWithinTotal(SlotOf(oracle_calls[i + 1].after, level))

(***************************************************************************)
(* GameState.update on its own.  The new state is a JSON object: each key  *)
(* it has carries the JSON type of its value next to the value, so that    *)
(* the isinstance tests of update can be told apart.  game_state is the    *)
(* stored state, candidate_state the argument of the call.                 *)
(***************************************************************************)
Json(json_type, value) == [json_type |-> json_type, value |-> value]

PlayerValues ==
    { Json("object", InitialPlayer), Json("object", EmptyDict),
      Json("string", "invalid"), Json("array", <<>>) }

LocationValues == { Json("string", "Cave"), Json("number", 123) }

DangerValues ==
    { Json("string", "high"), Json("string", "very high"), Json("string", "invalid"),
      Json("string", "moderate"), Json("number", 3) }

\* new states with any of the keys player, location, danger, and dark
NewStates ==
    { [key \in keys |->
          CASE key = "player" -> player
            [] key = "location" -> location
            [] key = "danger" -> danger
            [] OTHER -> Json("boolean", TRUE)] :
        keys \in SUBSET {"player", "location", "danger", "dark"},
        player \in PlayerValues, location \in LocationValues, danger \in DangerValues }

danger_levels == <<"safe", "low", "medium", "high", "very high">>

IsDangerLevel_AnyString(danger) == danger.json_type = "string"

\* new_state["danger"] in ["safe", "low", "medium", "high", "very high"]
IsDangerLevel(danger) ==
    /\ danger.json_type = "string"
    /\ \E i \in 1..Len(danger_levels) : danger_levels[i] = danger.value

\* the three checks of update, each behind `key in new_state`
UpdateRaises(new_state) ==
    \/ ("player" \in DOMAIN new_state /\ new_state["player"].json_type # "object")
    \/ ("location" \in DOMAIN new_state /\ new_state["location"].json_type # "string")
    \/ ("danger" \in DOMAIN new_state /\ ~IsDangerLevel(new_state["danger"]))

\* the dict a JSON object stands for
Value(new_state) == [key \in DOMAIN new_state |-> new_state[key].value]

UpdateInit ==
    /\ game_state \in {InitialState, Moved(InitialState)}
    /\ candidate_state \in NewStates
    /\ prior_state = game_state
    /\ pc = "update"
    /\ context = <<>>
    /\ location_manager = [configured |-> FALSE, locations_by_name |-> EmptyDict]
    /\ turns = 0
    /\ command = ""
    /\ retry_count = 0
    /\ actions = <<>>
    /\ action_index = 1
    /\ success_message = ""
    /\ response = NoResponse
    /\ attempt = 0
    /\ validation_feedback = <<>>
    /\ validation_result = NoValidation
    /\ new_game_state = None
    /\ result = NoResult
    /\ resolution = <<>>
    /\ state_source = "none"
    /\ oracle_calls = <<>>
    /\ validations = <<>>
    /\ prior_context = <<>>

\* GameState.update(new_state): raise ValueError, or self._state = new_state
ApplyUpdate ==
    /\ pc = "update"
    /\ IF UpdateRaises(candidate_state)
       THEN /\ result' = [kind |-> "raised", exit |-> "update", value |-> ""]
            /\ UNCHANGED game_state
       ELSE /\ result' = Returned("update", "")
            /\ game_state' = Value(candidate_state)
    /\ pc' = "updated"
    /\ UNCHANGED <<context, location_manager, turns, command, retry_count,
                   actions, action_index, success_message, response, attempt,
                   validation_feedback, candidate_state, validation_result,
                   new_game_state, resolution, state_source, oracle_calls,
                   validations, prior_state, prior_context>>

UpdateNext == ApplyUpdate

UpdateSpec == UpdateInit /\ [][UpdateNext]_vars

FiveDangerValues == {"safe", "low", "medium", "high", "very high"}

====
